---------------------------- MODULE Spec2Model ----------------------------
(***************************************************************************)
(* A model of the two signature engines of backend/app/crypto:             *)
(*   finite_field_dss.py     FiniteFieldDSS   (parameters p, q; Forms 1.x) *)
(*   elliptic_curve_dss.py   EllipticCurveDSS (curve points;   Forms 2.x)  *)
(*                                                                         *)
(* and of the HTTP endpoints of backend/app/main.py.                       *)
(*                                                                         *)
(* The specifications share the variables below, each leaving the other    *)
(* parts' variables untouched:                                             *)
(*   SpecParams    FiniteFieldDSS.__init__ / _generate_parameters          *)
(*   SpecFF        FiniteFieldDSS key_generation / sign / verify           *)
(*   SpecCalls     both engines, every draw of key_generation and sign     *)
(*   SpecPoint     EllipticCurveDSS point primitives on curve points       *)
(*   SpecAnyPoint  the point primitives on arbitrary coordinate pairs      *)
(*   SpecEC        EllipticCurveDSS key_generation / sign / verify         *)
(*   SpecVerify    verify_signature on given signatures, a wider curve     *)
(*   SpecKeys      SpecEC, verifying again under another public key        *)
(*   SpecRekey     SpecCalls, with key_generation called again             *)
(*   SpecHash      the hash inputs both engines build                      *)
(*   SpecThreads   two threads calling into one shared engine instance     *)
(*   SpecApi       the endpoints generate_keys / sign / verify of main.py  *)
(***************************************************************************)
EXTENDS Integers, Sequences, FiniteSets, TLC

VARIABLES
    \* ---- FiniteFieldDSS instance --------------------------------------
    bit_length,     \* the constructor's argument (0: None or 0, both falsy)
    ctor_pc,        \* "new" before __init__ ran, "constructed" after
    params,         \* self.params: FiniteFieldParams [p, q]
    \* ---- EllipticCurveDSS instance ------------------------------------
    ec_params,      \* self.params: None or EllipticCurveParams [p, a, b, G, n]
    ec_metrics,     \* self.performance_metrics
    pt_call,        \* the last call of a point primitive: inputs and result
    \* ---- FiniteFieldDSS calls -----------------------------------------
    ff_pc,                  \* "keyed", "signed", "verified" ("off": not explored)
    ff_key,                 \* the key pair [x, y] the caller holds
    ff_metrics,             \* self.performance_metrics
    intermediate_values,    \* self.intermediate_values (the entries of sign)
    verification_details,   \* self.verification_details
    ff_sig,                 \* the signature sign returned, with its message
    ff_verify,              \* the last verify call: arguments and result
    \* ---- EllipticCurveDSS calls ---------------------------------------
    ec_bit_length,  \* self.bit_length
    ec_pc,          \* "new", "keyed", "signing", "signed", "verified", "raised"
    ec_key,         \* the key pair [G, P] key_generation returned
    ec_values,      \* self.intermediate_values (the entries of the last call)
    ec_message,     \* the message being signed
    ec_depth,       \* how deep sign_message has called itself
    ec_sig,         \* the signature [R, s, Z] sign_message returned
    ec_verify,      \* the last verify_signature call: what was passed, result
    \* ---- single helpers of both engines -------------------------------
    hash_calls,     \* the hash inputs built so far: components and string
    \* ---- threads sharing one engine instance --------------------------
    threads,        \* per thread: the call in progress, its locals, its result
    \* ---- main.py: the HTTP endpoints ----------------------------------
    api             \* dss_instances (its size) and the responses sent so far

paramVars == <<bit_length, ctor_pc, params>>
ecVars == <<ec_params, ec_metrics, ec_bit_length, ec_pc, ec_key, ec_values,
            ec_message, ec_depth, ec_sig, ec_verify>>
ecCallVars == <<ec_bit_length, ec_pc, ec_key, ec_values, ec_message, ec_depth,
                ec_sig, ec_verify>>
ptVars == <<pt_call>>
ffVars == <<ff_pc, ff_key, ff_metrics, intermediate_values, verification_details,
            ff_sig, ff_verify>>
extVars == <<hash_calls, threads, api>>
vars == <<bit_length, ctor_pc, params, ec_params, ec_metrics, pt_call,
          ff_pc, ff_key, ff_metrics, intermediate_values, verification_details,
          ff_sig, ff_verify, ec_bit_length, ec_pc, ec_key, ec_values, ec_message,
          ec_depth, ec_sig, ec_verify, hash_calls, threads, api>>

(***************************************************************************)
(* Bounds of the model.                                                    *)
(***************************************************************************)
\* Requested bit lengths 0..MaxBitLength are explored (and one above 512).
MaxBitLength == 16
\* Scalars -MaxScalar..MaxScalar are passed to _scalar_multiply.
MaxScalar == 12
\* Point coordinates are drawn from -CoordExcess..p-1+CoordExcess, so that a
\* few points come with coordinates that are not reduced modulo p.
CoordExcess == 2
\* The interpreter's call stack holds MaxDepth nested retries of sign_message.
MaxDepth == 2
\* The calls on one FiniteFieldDSS instance are followed while its exp_ops
\* counter is below MaxExpOps.
MaxExpOps == 7
\* Signatures (R, s, Z) handed to verify_signature: points of the curve with
\* x in 0..MaxGivenX and scalars s in 0..MaxGivenS.
MaxGivenX == 12
MaxGivenS == 12
\* Hash inputs are built for integers 0..MaxHashR, MaxHashCalls times.
MaxHashR == 12
MaxHashCalls == 2
\* _point_add and _point_double are also called on arbitrary points, on the
\* curve or not, with coordinates in -CoordExcess..MaxCoord.
MaxCoord == 16
\* key_generation is called again on an EllipticCurveDSS instance while its
\* point_multiplications counter is below MaxPointMultiplications.
MaxPointMultiplications == 4
\* A thread's sign call draws k = u = v from 1..MaxThreadDraw.
MaxThreadDraw == 2

(***************************************************************************)
(* Integer helpers: what Python's built-ins compute.                       *)
(***************************************************************************)
Max2(a, b) == IF a >= b THEN a ELSE b

RECURSIVE Pow2(_)
Pow2(n) == IF n <= 0 THEN 1 ELSE 2 * Pow2(n - 1)

\* int.bit_length()
RECURSIVE BitLen(_)
BitLen(n) == IF n <= 0 THEN 0 ELSE 1 + BitLen(n \div 2)

\* sympy.gcd / math.gcd of non-negative integers
RECURSIVE Gcd(_, _)
Gcd(a, b) == IF b = 0 THEN a ELSE Gcd(b, a % b)

\* an upper bound of the square root of n
RootBound(n) == Pow2((BitLen(n) + 1) \div 2)

\* sympy.isprime (trial division decides it for the numbers of the model)
IsPrime(n) == n > 1 /\ \A d \in 2..RootBound(n) : d * d > n \/ n % d # 0

\* sympy.randprime(a, b): some prime in [a, b); the set of its outcomes
RandPrimes(a, b) == {n \in a..(b - 1) : IsPrime(n)}

\* FiniteFieldParams(): p = 0, q = 0
FiniteFieldParams == [p |-> 0, q |-> 0]

\* the FiniteFieldDSS variables while another engine is explored
ParamsIdle ==
    /\ bit_length = 0
    /\ ctor_pc = "new"
    /\ params = FiniteFieldParams

\* __init__: every counter of performance_metrics at 0
ZeroFFMetrics == [exp_ops |-> 0, mul_ops |-> 0, inv_ops |-> 0, hash_ops |-> 0]

NoSignature == [message |-> "", r |-> 0, s |-> 0, z |-> 0]
NoVerification == [kind |-> "none"]
NoValues == [sign_k |-> 0]
NoKey == [x |-> 0, y |-> 0]

\* the FiniteFieldDSS call variables while another engine is explored
FFIdle ==
    /\ ff_pc = "off"
    /\ ff_key = NoKey
    /\ ff_metrics = ZeroFFMetrics
    /\ intermediate_values = NoValues
    /\ verification_details = NoVerification
    /\ ff_sig = NoSignature
    /\ ff_verify = NoVerification

(***************************************************************************)
(* EllipticCurveDSS: points, parameters, metrics                           *)
(***************************************************************************)
\* self.params = None
None == "None"

\* EllipticCurvePoint(x, y) and EllipticCurvePoint(0, 0, infinity=True)
Point(x, y) == [x |-> x, y |-> y, infinity |-> FALSE]
PointAtInfinity == [x |-> 0, y |-> 0, infinity |-> TRUE]

\* EllipticCurveParams(p, a, b, G, n)
EllipticCurveParams(p, a, b, G, n) == [p |-> p, a |-> a, b |-> b, G |-> G, n |-> n]

\* The curve y^2 = x^3 + 2x + 3 over F_97 (100 points, group Z_50 x Z_2)
\* stands in for the 192/256-bit constants of _generate_curve_params, which
\* exceed the integers of the model checker.  Two base points are explored:
\* (3, 6) of prime order 5 and (88, 56) of composite order 10.
CurveP == 97
CurveA == 2
CurveB == 3
SmallGx == 3
SmallGy == 6
SmallN == 5
LargeGx == 88
LargeGy == 56
LargeN == 10

SmallOrderParams ==
    EllipticCurveParams(CurveP, CurveA, CurveB, Point(SmallGx, SmallGy), SmallN)
LargeOrderParams ==
    EllipticCurveParams(CurveP, CurveA, CurveB, Point(LargeGx, LargeGy), LargeN)

CurveParamSets == {SmallOrderParams, LargeOrderParams}

\* __init__: every counter of performance_metrics at 0
ZeroMetrics ==
    [point_multiplications |-> 0, point_additions |-> 0,
     modular_exponentiations |-> 0, hash_operations |-> 0,
     modular_inversions |-> 0]

NoCall == [op |-> "none"]

\* the threads calling into one shared instance, none of them in a call:
\* both sign, and one of them also verifies
Threads == {"A", "B"}
Verifiers == {"B"}
NoThread == [pc |-> "idle"]

\* main.py at start-up: dss_instances = {}, no request answered
NoRequests == [dss_instances |-> 0, responses |-> <<>>]

\* the helpers, the threads and the endpoints, while an engine is explored on
\* its own
ExtIdle ==
    /\ hash_calls = <<>>
    /\ threads = [t \in Threads |-> NoThread]
    /\ api = NoRequests

NoEcKey == [G |-> PointAtInfinity, P |-> PointAtInfinity]
NoEcValues == [sign_k |-> 0]
NoEcSignature == [R |-> PointAtInfinity, s |-> 0, Z |-> PointAtInfinity]

\* the variables of the EllipticCurveDSS calls while no call is explored
EcCallsIdle ==
    /\ ec_bit_length = 0
    /\ ec_pc = "off"
    /\ ec_key = NoEcKey
    /\ ec_values = NoEcValues
    /\ ec_message = ""
    /\ ec_depth = 0
    /\ ec_sig = NoEcSignature
    /\ ec_verify = NoVerification

\* the EllipticCurveDSS variables while another engine is explored
EcIdle ==
    /\ ec_params = None
    /\ ec_metrics = ZeroMetrics
    /\ pt_call = NoCall
    /\ ExtIdle
    /\ EcCallsIdle

\* (mutant of HasInverse: pow(a, -1, m) never raises)
HasInverseAlways(a, m) == TRUE

\* pow(a, -1, m) and sympy.mod_inverse(a, m): the inverse exists (otherwise a
\* ValueError is raised), and the inverse, found by Euclid's algorithm
HasInverse(a, m) == Gcd(a % m, m) = 1

RECURSIVE Bezout(_, _)
Bezout(a, b) ==
    IF b = 0 THEN <<1, 0>>
    ELSE LET r == Bezout(b, a % b)
         IN  <<r[2], r[1] - (a \div b) * r[2]>>

ModInverse(a, m) == Bezout(a % m, m)[1] % m

\* (mutant of point_double: the curve's a left out of the tangent slope)
point_double_without_a(P, cp) ==
    IF P.infinity THEN P
    ELSE LET numerator == (3 * P.x * P.x) % cp.p
             denominator == (2 * P.y) % cp.p
         IN  IF denominator = 0 THEN PointAtInfinity
             ELSE IF ~HasInverse(denominator, cp.p) THEN PointAtInfinity
             ELSE LET slope == (numerator * ModInverse(denominator, cp.p)) % cp.p
                      x3 == (slope * slope - 2 * P.x) % cp.p
                      y3 == (slope * (P.x - x3) - P.y) % cp.p
                  IN  Point(x3, y3)

\* _point_double(P); the except branch returns the point at infinity
point_double(P, cp) ==
    IF P.infinity THEN P
    ELSE LET numerator == (3 * P.x * P.x + cp.a) % cp.p
             denominator == (2 * P.y) % cp.p
         IN  IF denominator = 0 THEN PointAtInfinity
             ELSE IF ~HasInverse(denominator, cp.p) THEN PointAtInfinity
             ELSE LET slope == (numerator * ModInverse(denominator, cp.p)) % cp.p
                      x3 == (slope * slope - 2 * P.x) % cp.p
                      y3 == (slope * (P.x - x3) - P.y) % cp.p
                  IN  Point(x3, y3)

\* (mutant of point_add: a shared x always routes to doubling, whatever the
\* two y are)
point_add_doubling_on_shared_x(P, Q, cp) ==
    IF P.infinity THEN Q
    ELSE IF Q.infinity THEN P
    ELSE IF P.x = Q.x THEN point_double(P, cp)
    ELSE LET numerator == (Q.y - P.y) % cp.p
             denominator == (Q.x - P.x) % cp.p
         IN  IF denominator = 0 THEN PointAtInfinity
             ELSE IF ~HasInverse(denominator, cp.p) THEN PointAtInfinity
             ELSE LET slope == (numerator * ModInverse(denominator, cp.p)) % cp.p
                      x3 == (slope * slope - P.x - Q.x) % cp.p
                      y3 == (slope * (P.x - x3) - P.y) % cp.p
                  IN  Point(x3, y3)

\* _point_add(P, Q), without its counter
point_add(P, Q, cp) ==
    IF P.infinity THEN Q
    ELSE IF Q.infinity THEN P
    ELSE IF P.x = Q.x
         THEN IF P.y = Q.y THEN point_double(P, cp) ELSE PointAtInfinity
    ELSE LET numerator == (Q.y - P.y) % cp.p
             denominator == (Q.x - P.x) % cp.p
         IN  IF denominator = 0 THEN PointAtInfinity
             ELSE IF ~HasInverse(denominator, cp.p) THEN PointAtInfinity
             ELSE LET slope == (numerator * ModInverse(denominator, cp.p)) % cp.p
                      x3 == (slope * slope - P.x - Q.x) % cp.p
                      y3 == (slope * (P.x - x3) - P.y) % cp.p
                  IN  Point(x3, y3)

\* (mutant of DoubleAndAdd: the addend is added at every bit of k, set or not)
RECURSIVE DoubleAndAddEveryBit(_, _, _, _)
DoubleAndAddEveryBit(k, result, addend, cp) ==
    IF k <= 0 THEN result
    ELSE DoubleAndAddEveryBit(k \div 2, point_add(result, addend, cp),
                              point_double(addend, cp), cp)

\* the while loop of _scalar_multiply: double-and-add over the bits of k
RECURSIVE DoubleAndAdd(_, _, _, _)
DoubleAndAdd(k, result, addend, cp) ==
    IF k <= 0 THEN result
    ELSE DoubleAndAdd(k \div 2,
                      IF k % 2 = 1 THEN point_add(result, addend, cp) ELSE result,
                      point_double(addend, cp), cp)

\* the scalar the loop of _scalar_multiply runs on
NormalizedScalar(k, n) == (IF k < 0 THEN (-k) % n ELSE k) % n

\* (mutant of scalar_multiply: no early return, and the loop's result starts
\* at P instead of the point at infinity)
scalar_multiply_from_P(k, P, cp) ==
    DoubleAndAdd(NormalizedScalar(k, cp.n), P, P, cp)

\* _scalar_multiply(k, P) once the parameters are set, without its counters
scalar_multiply(k, P, cp) ==
    IF k = 0 THEN PointAtInfinity
    ELSE IF k = 1 THEN P
    ELSE IF NormalizedScalar(k, cp.n) = 0 THEN PointAtInfinity
    ELSE DoubleAndAdd(NormalizedScalar(k, cp.n), PointAtInfinity, P, cp)

\* the number of set bits of k: the _point_add calls of the loop
RECURSIVE BitCount(_)
BitCount(k) == IF k <= 0 THEN 0 ELSE (k % 2) + BitCount(k \div 2)

\* the _point_add calls one _scalar_multiply(k, P) makes
ScalarMultiplyAdds(k, cp) ==
    IF k = 0 \/ k = 1 THEN 0 ELSE BitCount(NormalizedScalar(k, cp.n))

(***************************************************************************)
(* SpecPoint: the point primitives called on an instance whose parameters  *)
(* are set                                                                 *)
(***************************************************************************)
\* y^2 = x^3 + ax + b (mod p)
OnCurve(P, cp) ==
    (P.y * P.y - (P.x * P.x * P.x + cp.a * P.x + cp.b)) % cp.p = 0

Coordinates(cp) == (0 - CoordExcess)..(cp.p - 1 + CoordExcess)

\* the points passed to the primitives: the points of the curve, with reduced
\* coordinates or not, and the identity
CurvePoints(cp) ==
    {P \in {Point(x, y) : x \in Coordinates(cp), y \in Coordinates(cp)} :
        OnCurve(P, cp)}

PointInputs(cp) == CurvePoints(cp) \cup {PointAtInfinity}

Scalars == (0 - MaxScalar)..MaxScalar

PointAdd ==
    /\ pt_call = NoCall
    /\ \E P \in PointInputs(ec_params), Q \in PointInputs(ec_params) :
          pt_call' = [op |-> "add", P |-> P, Q |-> Q, k |-> 0,
                      result |-> point_add(P, Q, ec_params)]
    /\ ec_metrics' = [ec_metrics EXCEPT !.point_additions = @ + 1]
    /\ UNCHANGED <<paramVars, ffVars, extVars, ecCallVars, ec_params>>

PointDouble ==
    /\ pt_call = NoCall
    /\ \E P \in PointInputs(ec_params) :
          pt_call' = [op |-> "double", P |-> P, Q |-> P, k |-> 0,
                      result |-> point_double(P, ec_params)]
    /\ UNCHANGED <<paramVars, ffVars, extVars, ecCallVars, ec_params, ec_metrics>>

ScalarMultiply ==
    /\ pt_call = NoCall
    /\ \E k \in Scalars, P \in PointInputs(ec_params) :
          /\ pt_call' = [op |-> "multiply", P |-> P, Q |-> P, k |-> k,
                         result |-> scalar_multiply(k, P, ec_params)]
          /\ ec_metrics' =
                [ec_metrics EXCEPT
                    !.point_multiplications = @ + 1,
                    !.point_additions = @ + ScalarMultiplyAdds(k, ec_params)]
    /\ UNCHANGED <<paramVars, ffVars, extVars, ecCallVars, ec_params>>

InitPoint ==
    /\ ParamsIdle
    /\ FFIdle
    /\ ec_params \in CurveParamSets
    /\ ec_metrics = ZeroMetrics
    /\ pt_call = NoCall
    /\ ExtIdle
    /\ EcCallsIdle

NextPoint ==
    \/ PointAdd
    \/ PointDouble
    \/ ScalarMultiply

SpecPoint == InitPoint /\ [][NextPoint]_vars

(***************************************************************************)
(* FiniteFieldDSS.__init__ and _generate_parameters                        *)
(***************************************************************************)
\* the bit_length above which _generate_parameters skips the search
SearchLimit == 512
\* "Fallback to known good small parameters for demo"
FallbackQ == 11
FallbackP == 23
\* "Ultimate fallback" of the except branch
UltimateQ == 7
UltimateP == 43
\* for k in range(2, 100)
KFirst == 2
KLast == 99
\* q_bits = max(8, bit_length // 8)
MinQBits == 8
QBitsDivisor == 8

FallbackParams == [p |-> FallbackP, q |-> FallbackQ]
UltimateParams == [p |-> UltimateP, q |-> UltimateQ]

QBits(bl) == Max2(MinQBits, bl \div QBitsDivisor)

\* (mutant of CandidateOk: the primality test of the candidate left out)
CandidateOkNoPrimeTest(cand, bl) == BitLen(cand) <= bl

\* the acceptance test of a candidate p = k*q + 1
CandidateOk(cand, bl) == IsPrime(cand) /\ BitLen(cand) <= bl

\* the k's of range(2, 100) whose candidate is accepted
GoodKs(q, bl) == {k \in KFirst..KLast : CandidateOk(k * q + 1, bl)}

SetMin(S) == CHOOSE m \in S : \A n \in S : m <= n

\* the parameters stored once q has been drawn (no exception raised)
ParamsForQ(q, bl) ==
    IF GoodKs(q, bl) # {}
    THEN [p |-> SetMin(GoodKs(q, bl)) * q + 1, q |-> q]
    ELSE FallbackParams

\* the values randprime may return for q
QChoices(bl) == RandPrimes(Pow2(QBits(bl) - 1), Pow2(QBits(bl)))

\* the bit lengths the constructor is called with
BitLengths == (0..MaxBitLength) \cup {SearchLimit + 1}

\* __init__ with a falsy bit_length: parameters stay (0, 0)
ConstructUninitialized ==
    /\ ctor_pc = "new"
    /\ bit_length = 0
    /\ ctor_pc' = "constructed"
    /\ UNCHANGED <<bit_length, params, ecVars, ptVars, extVars, ffVars>>

\* __init__ -> _generate_parameters, the search of q and p
GenerateParameters ==
    /\ ctor_pc = "new"
    /\ bit_length # 0
    /\ bit_length <= SearchLimit
    /\ \E q \in QChoices(bit_length) : params' = ParamsForQ(q, bit_length)
    /\ ctor_pc' = "constructed"
    /\ UNCHANGED <<bit_length, ecVars, ptVars, extVars, ffVars>>

\* __init__ -> _generate_parameters with bit_length > 512
GenerateParametersFallback ==
    /\ ctor_pc = "new"
    /\ bit_length > SearchLimit
    /\ params' = FallbackParams
    /\ ctor_pc' = "constructed"
    /\ UNCHANGED <<bit_length, ecVars, ptVars, extVars, ffVars>>

\* __init__ -> _generate_parameters, an exception raised inside the try
GenerateParametersException ==
    /\ ctor_pc = "new"
    /\ bit_length # 0
    /\ bit_length <= SearchLimit
    /\ params' = UltimateParams
    /\ ctor_pc' = "constructed"
    /\ UNCHANGED <<bit_length, ecVars, ptVars, extVars, ffVars>>

InitParams ==
    /\ bit_length \in BitLengths
    /\ ctor_pc = "new"
    /\ params = FiniteFieldParams
    /\ EcIdle
    /\ FFIdle

NextParams ==
    \/ ConstructUninitialized
    \/ GenerateParameters
    \/ GenerateParametersFallback
    \/ GenerateParametersException

SpecParams == InitParams /\ [][NextParams]_vars

(***************************************************************************)
(* Hashing.  hashlib.sha256 is modelled by its values: Sha256Residue maps   *)
(* every string the engines hash in this model to the SHA-256 digest of its *)
(* UTF-8 bytes, read as a big-endian integer and reduced modulo             *)
(* DigestModulus.  Every modulus the engines reduce a digest by (q = 7, 11; *)
(* n = 5, 50) divides DigestModulus, so digest % q and digest % n are the   *)
(* values the code computes.                                                *)
(***************************************************************************)
DigestModulus == 2 * 5 * 5 * 7 * 11

Sha256Residue ==
    (  "0test" :> 745 @@ "1test" :> 3236 @@ "2test" :> 1497 @@ "3test" :> 2174
    @@ "4test" :> 224 @@ "5test" :> 3821 @@ "6test" :> 493 @@ "7test" :> 962
    @@ "8test" :> 746 @@ "9test" :> 1355 @@ "10test" :> 177 @@ "11test" :> 3475
    @@ "12test" :> 554 @@ "13test" :> 3158 @@ "14test" :> 263 @@ "15test" :> 2489
    @@ "16test" :> 1206 @@ "17test" :> 435 @@ "18test" :> 1167 @@ "19test" :> 1861
    @@ "20test" :> 2602 @@ "21test" :> 191 @@ "22test" :> 1692 @@ "23test" :> 1905
    @@ "24test" :> 175 @@ "25test" :> 1297 @@ "26test" :> 2967 @@ "27test" :> 417
    @@ "28test" :> 146 @@ "29test" :> 1378 @@ "30test" :> 2308 @@ "31test" :> 1755
    @@ "32test" :> 2107 @@ "33test" :> 3157 @@ "34test" :> 3562 @@ "35test" :> 1736
    @@ "36test" :> 3340 @@ "37test" :> 541 @@ "38test" :> 2 @@ "39test" :> 1992
    @@ "40test" :> 3315 @@ "41test" :> 249 @@ "42test" :> 3476 @@ "0hello" :> 3841
    @@ "1hello" :> 1623 @@ "2hello" :> 1007 @@ "3hello" :> 3235 @@ "4hello" :> 3151
    @@ "5hello" :> 1219 @@ "6hello" :> 2017 @@ "7hello" :> 3465 @@ "8hello" :> 3676
    @@ "9hello" :> 1315 @@ "10hello" :> 2357 @@ "11hello" :> 29 @@ "12hello" :> 3712
    @@ "13hello" :> 3074 @@ "14hello" :> 996 @@ "15hello" :> 443 @@ "16hello" :> 2002
    @@ "17hello" :> 3819 @@ "18hello" :> 82 @@ "19hello" :> 356 @@ "20hello" :> 3649
    @@ "21hello" :> 193 @@ "22hello" :> 3287 @@ "23hello" :> 3673 @@ "24hello" :> 3344
    @@ "25hello" :> 240 @@ "26hello" :> 911 @@ "27hello" :> 3354 @@ "28hello" :> 167
    @@ "29hello" :> 3478 @@ "30hello" :> 1185 @@ "31hello" :> 989 @@ "32hello" :> 3719
    @@ "33hello" :> 1050 @@ "34hello" :> 1718 @@ "35hello" :> 728 @@ "36hello" :> 1506
    @@ "37hello" :> 485 @@ "38hello" :> 3763 @@ "39hello" :> 1551 @@ "40hello" :> 2484
    @@ "41hello" :> 3008 @@ "42hello" :> 1513 @@ "0||test" :> 1443 @@ "1||test" :> 2858
    @@ "2||test" :> 46 @@ "3||test" :> 458 @@ "4||test" :> 652 @@ "5||test" :> 143
    @@ "6||test" :> 1203 @@ "7||test" :> 2614 @@ "8||test" :> 3007 @@ "9||test" :> 826
    @@ "10||test" :> 1465 @@ "11||test" :> 3321 @@ "12||test" :> 2919 @@ "13||test" :> 2680
    @@ "14||test" :> 1607 @@ "15||test" :> 3302 @@ "16||test" :> 1124 @@ "17||test" :> 3630
    @@ "18||test" :> 3383 @@ "19||test" :> 2812 @@ "20||test" :> 2970 @@ "21||test" :> 759
    @@ "22||test" :> 2290 @@ "23||test" :> 3316 @@ "24||test" :> 3087 @@ "25||test" :> 2390
    @@ "26||test" :> 3370 @@ "27||test" :> 3137 @@ "28||test" :> 994 @@ "29||test" :> 3220
    @@ "30||test" :> 1996 @@ "31||test" :> 1325 @@ "32||test" :> 3149 @@ "33||test" :> 1147
    @@ "34||test" :> 2520 @@ "35||test" :> 1112 @@ "36||test" :> 2275 @@ "37||test" :> 1220
    @@ "38||test" :> 1295 @@ "39||test" :> 172 @@ "40||test" :> 2808 @@ "41||test" :> 1618
    @@ "42||test" :> 2481 @@ "43||test" :> 0 @@ "44||test" :> 2540 @@ "45||test" :> 1906
    @@ "46||test" :> 46 @@ "47||test" :> 1230 @@ "48||test" :> 911 @@ "49||test" :> 2000
    @@ "50||test" :> 275 @@ "51||test" :> 2523 @@ "52||test" :> 252 @@ "53||test" :> 795
    @@ "54||test" :> 2371 @@ "55||test" :> 872 @@ "56||test" :> 677 @@ "57||test" :> 1230
    @@ "58||test" :> 647 @@ "59||test" :> 577 @@ "60||test" :> 2928 @@ "61||test" :> 2188
    @@ "62||test" :> 1096 @@ "63||test" :> 2556 @@ "64||test" :> 2902 @@ "65||test" :> 1240
    @@ "66||test" :> 2804 @@ "67||test" :> 2753 @@ "68||test" :> 1735 @@ "69||test" :> 2796
    @@ "70||test" :> 3378 @@ "71||test" :> 3778 @@ "72||test" :> 2221 @@ "73||test" :> 1909
    @@ "74||test" :> 2489 @@ "75||test" :> 1521 @@ "76||test" :> 1810 @@ "77||test" :> 19
    @@ "78||test" :> 3238 @@ "79||test" :> 3815 @@ "80||test" :> 1089 @@ "81||test" :> 2328
    @@ "82||test" :> 1546 @@ "83||test" :> 525 @@ "84||test" :> 3 @@ "85||test" :> 1092
    @@ "86||test" :> 1755 @@ "87||test" :> 3804 @@ "88||test" :> 852 @@ "89||test" :> 686
    @@ "90||test" :> 2947 @@ "91||test" :> 3153 @@ "92||test" :> 883 @@ "93||test" :> 1318
    @@ "94||test" :> 387 @@ "95||test" :> 229 @@ "96||test" :> 3560 @@ "0||hello" :> 1361
    @@ "1||hello" :> 2334 @@ "2||hello" :> 2185 @@ "3||hello" :> 678 @@ "4||hello" :> 2641
    @@ "5||hello" :> 960 @@ "6||hello" :> 776 @@ "7||hello" :> 2757 @@ "8||hello" :> 1474
    @@ "9||hello" :> 31 @@ "10||hello" :> 203 @@ "11||hello" :> 264 @@ "12||hello" :> 2407
    @@ "13||hello" :> 2697 @@ "14||hello" :> 886 @@ "15||hello" :> 1653 @@ "16||hello" :> 1423
    @@ "17||hello" :> 2440 @@ "18||hello" :> 597 @@ "19||hello" :> 489 @@ "20||hello" :> 1041
    @@ "21||hello" :> 934 @@ "22||hello" :> 2390 @@ "23||hello" :> 3666 @@ "24||hello" :> 1648
    @@ "25||hello" :> 1692 @@ "26||hello" :> 2823 @@ "27||hello" :> 462 @@ "28||hello" :> 3156
    @@ "29||hello" :> 1222 @@ "30||hello" :> 435 @@ "31||hello" :> 2979 @@ "32||hello" :> 535
    @@ "33||hello" :> 856 @@ "34||hello" :> 3835 @@ "35||hello" :> 1589 @@ "36||hello" :> 3527
    @@ "37||hello" :> 1958 @@ "38||hello" :> 285 @@ "39||hello" :> 2930 @@ "40||hello" :> 2703
    @@ "41||hello" :> 2817 @@ "42||hello" :> 312 @@ "43||hello" :> 3531 @@ "44||hello" :> 2841
    @@ "45||hello" :> 1449 @@ "46||hello" :> 660 @@ "47||hello" :> 600 @@ "48||hello" :> 2129
    @@ "49||hello" :> 2556 @@ "50||hello" :> 17 @@ "51||hello" :> 2115 @@ "52||hello" :> 2112
    @@ "53||hello" :> 1183 @@ "54||hello" :> 793 @@ "55||hello" :> 3405 @@ "56||hello" :> 563
    @@ "57||hello" :> 2451 @@ "58||hello" :> 3036 @@ "59||hello" :> 1995 @@ "60||hello" :> 2996
    @@ "61||hello" :> 1216 @@ "62||hello" :> 548 @@ "63||hello" :> 3222 @@ "64||hello" :> 137
    @@ "65||hello" :> 2170 @@ "66||hello" :> 4 @@ "67||hello" :> 3377 @@ "68||hello" :> 3035
    @@ "69||hello" :> 1221 @@ "70||hello" :> 162 @@ "71||hello" :> 3149 @@ "72||hello" :> 1582
    @@ "73||hello" :> 182 @@ "74||hello" :> 1444 @@ "75||hello" :> 2348 @@ "76||hello" :> 1914
    @@ "77||hello" :> 2070 @@ "78||hello" :> 3714 @@ "79||hello" :> 3196 @@ "80||hello" :> 1374
    @@ "81||hello" :> 567 @@ "82||hello" :> 1658 @@ "83||hello" :> 2358 @@ "84||hello" :> 2641
    @@ "85||hello" :> 1319 @@ "86||hello" :> 2371 @@ "87||hello" :> 534 @@ "88||hello" :> 3317
    @@ "89||hello" :> 2533 @@ "90||hello" :> 2309 @@ "91||hello" :> 782 @@ "92||hello" :> 1455
    @@ "93||hello" :> 3614 @@ "94||hello" :> 2089 @@ "95||hello" :> 1059 @@ "96||hello" :> 2214 )

\* the messages signed in this model
Messages == {"test", "hello"}

(***************************************************************************)
(* FiniteFieldDSS: key_generation, sign, verify                            *)
(***************************************************************************)
\* pow(b, e, m) for e >= 0
RECURSIVE ModExp(_, _, _)
ModExp(b, e, m) ==
    IF e <= 0 THEN 1 % m
    ELSE LET h == ModExp(b, e \div 2, m)
         IN  IF e % 2 = 0 THEN (h * h) % m ELSE (((h * h) % m) * (b % m)) % m

\* _hash(data) % max(1, q); each use is preceded by _count_operation('hash')
\* and _hash counts once more itself
HashModQ(data, pr) == Sha256Residue[data] % Max2(1, pr.q)
HashOpsPerUse == 2

\* str(r) + message
HashInput(r, message) == ToString(r) \o message

\* key_generation: x = pow(a, (p - 1) // q, p) for a drawn value a
KeyGenX(a, pr) == ModExp(a, (pr.p - 1) \div pr.q, pr.p)

\* a = secrets.randbelow(p - 2) + 2
KeyGenDraws(pr) == 2..(pr.p - 1)

\* "x = 2  # Fallback to avoid infinite loop"
FallbackX == 2

\* key_generation: y = mod_inverse(pow(x, x, p), p), with the except branch
PublicKeyOf(x, pr) ==
    LET x_to_x == ModExp(x, x, pr.p)
    IN  IF HasInverse(x_to_x, pr.p)
        THEN ModInverse(x_to_x, pr.p)
        ELSE ModExp(x, (pr.p - 1 - x) % (pr.p - 1), pr.p)

KeyPair(x, pr) == [x |-> x, y |-> PublicKeyOf(x, pr)]

\* the private keys key_generation can return: x(a) # 1 for the last draw, or
\* the fallback when every one of the draws gave x = 1
KeyGenerationXs(pr) ==
    {KeyGenX(a, pr) : a \in {d \in KeyGenDraws(pr) : KeyGenX(d, pr) # 1}}
    \cup (IF \E d \in KeyGenDraws(pr) : KeyGenX(d, pr) = 1
          THEN {FallbackX} ELSE {})

\* the key pairs (x, y) key_generation can return
KeyGenerationResults(pr) == {KeyPair(x, pr) : x \in KeyGenerationXs(pr)}

\* the values sign draws k, u and v from: secrets.randbelow(max(1, q-1)) + 1
SignDraws(pr) == 1..Max2(1, pr.q - 1)

\* sign: s = numerator * mod_inverse(denominator, q) % q, with its fallback
SignS(numerator, denominator, pr) ==
    IF HasInverse(denominator, pr.q)
    THEN (numerator * ModInverse(denominator, pr.q)) % pr.q
    ELSE numerator % Max2(1, pr.q)

\* sign: "if denominator == 0: denominator = 1"
SignDenominator(k, e, r, pr) ==
    LET denominator == (k * (e + r)) % pr.q
    IN  IF denominator = 0 THEN 1 ELSE denominator

\* sign(message, private_key) with the draws k, u, v: every value it computes
SignValues(message, x, k, u, v, pr) ==
    LET r == ModExp(x, k, pr.p)
        e == HashModQ(HashInput(r, message), pr)
        z == ModExp(x, u, pr.p)
        w == ModExp(x, v, pr.p)
        numerator == (v * r + x * w) % pr.q
        denominator == SignDenominator(k, e, r, pr)
        s == SignS(numerator, denominator, pr)
        exp_z == (v - k * s) % pr.q
        z_final == ModExp(x, exp_z, pr.p)
    IN  [sign_k |-> k, sign_u |-> u, sign_v |-> v, sign_r |-> r, sign_e |-> e,
         sign_w |-> w, sign_numerator |-> numerator,
         sign_denominator |-> denominator, sign_exp_z |-> exp_z,
         z |-> z, s |-> s, z_final |-> z_final]

\* the counters one sign call adds
SignOps == [exp_ops |-> 4, mul_ops |-> 4, inv_ops |-> 1, hash_ops |-> HashOpsPerUse]

\* verify: the first equation, z^r = r^(s*e) * y^(z*r^s) (mod p)
VerifyLeftSide(r, z, pr) == ModExp(z, r, pr.p)

VerifyRightSide(r, s, z, y, a, pr) ==
    LET r_to_se == ModExp(r, (s * a) % (pr.p - 1), pr.p)
        z_rs == (z * ModExp(r, s, pr.p)) % pr.p
        y_term == ModExp(y, z_rs % (pr.p - 1), pr.p)
    IN  (r_to_se * y_term) % pr.p

\* verify: s_a of the alternative check and the test that guards it
VerifySA(s, a, pr) == (s * a) % Max2(1, pr.p - 1)
AlternativeApplies(s, a, pr) ==
    VerifySA(s, a, pr) > 0 /\ Gcd(VerifySA(s, a, pr), pr.p - 1) = 1

\* verify: r_bar of the alternative check ("Formula 1.14 approach")
VerifyRBar(r, s, z, y, a, pr) ==
    LET z_r == ModExp(z, r, pr.p)
        r_s == ModExp(r, s, pr.p)
        z_r_s_combined == (z * r_s) % pr.p
        neg_exp == ((0 - (z_r_s_combined % (pr.p - 1))) + (pr.p - 1)) % (pr.p - 1)
        y_neg_term == ModExp(y, neg_exp, pr.p)
        combined == (z_r * y_neg_term) % pr.p
        inv_sa == ModInverse(VerifySA(s, a, pr), pr.p - 1)
    IN  ModExp(combined, inv_sa, pr.p)

\* verify(message, (r, s, z), public_key): every value it computes
VerifyValues(message, r, s, z, y, pr) ==
    LET a == HashModQ(HashInput(r, message), pr)
        left_side == VerifyLeftSide(r, z, pr)
        right_side == VerifyRightSide(r, s, z, y, a, pr)
        first == (left_side = right_side)
        alternative == ~first /\ AlternativeApplies(s, a, pr)
        r_bar == IF alternative THEN VerifyRBar(r, s, z, y, a, pr) ELSE 0
        b == IF alternative THEN HashModQ(HashInput(r_bar, message), pr) ELSE 0
        equation_holds == IF alternative THEN a = b ELSE first
    IN  [verify_a |-> a, verify_left_side |-> left_side,
         verify_right_side |-> right_side, first_check |-> first,
         alternative |-> alternative, r_bar |-> r_bar, hash_b |-> b,
         verify_equation_holds |-> equation_holds, is_valid |-> equation_holds]

\* the counters one verify call adds
VerifyOps(vv) ==
    [exp_ops |-> 4 + (IF vv.first_check THEN 0 ELSE 3) + (IF vv.alternative THEN 1 ELSE 0),
     mul_ops |-> 2 + (IF vv.first_check THEN 0 ELSE 3),
     inv_ops |-> IF vv.alternative THEN 1 ELSE 0,
     hash_ops |-> HashOpsPerUse + (IF vv.alternative THEN HashOpsPerUse ELSE 0)]

\* (mutant of AddOps: the counters restart from 0 at every call)
AddOpsFromZero(m, ops) ==
    [exp_ops |-> ops.exp_ops, mul_ops |-> ops.mul_ops,
     inv_ops |-> ops.inv_ops, hash_ops |-> ops.hash_ops]

AddOps(m, ops) ==
    [exp_ops |-> m.exp_ops + ops.exp_ops, mul_ops |-> m.mul_ops + ops.mul_ops,
     inv_ops |-> m.inv_ops + ops.inv_ops, hash_ops |-> m.hash_ops + ops.hash_ops]

(***************************************************************************)
(* SpecFF: one FiniteFieldDSS instance whose parameters are one of the two *)
(* fixed parameter sets of _generate_parameters, and a caller who holds a  *)
(* key pair, has a message signed and has the signature verified, as       *)
(* signed, with one component incremented, or under another key.           *)
(***************************************************************************)
\* The concrete scenario: p = 43, q = 7, x = 3, y = modInv(3^3 mod 43, 43)
ScenarioX == 3
ScenarioKeys(pr) == IF pr = UltimateParams THEN {KeyPair(ScenarioX, pr)} ELSE {}

\* sign(message, private_key)
Sign ==
    /\ ff_pc = "keyed"
    /\ \E message \in Messages, k \in SignDraws(params), u \in SignDraws(params),
          v \in SignDraws(params) :
          LET sv == SignValues(message, ff_key.x, k, u, v, params)
          IN  /\ ff_sig' = [message |-> message, r |-> sv.sign_r, s |-> sv.s,
                            z |-> sv.z_final]
              /\ intermediate_values' =
                    [sign_k |-> sv.sign_k, sign_u |-> sv.sign_u, sign_v |-> sv.sign_v,
                     sign_r |-> sv.sign_r, sign_e |-> sv.sign_e, sign_w |-> sv.sign_w,
                     sign_numerator |-> sv.sign_numerator,
                     sign_denominator |-> sv.sign_denominator,
                     sign_exp_z |-> sv.sign_exp_z]
    /\ ff_metrics' = AddOps(ff_metrics, SignOps)
    /\ ff_pc' = "signed"
    /\ UNCHANGED <<paramVars, ecVars, ptVars, extVars, ff_key, verification_details, ff_verify>>

\* verify(message, signature, public_key) called with the given arguments
VerifyCall(kind, other_x, message, r, s, z, y) ==
    LET vv == VerifyValues(message, r, s, z, y, params)
    IN  /\ ff_verify' = [kind |-> kind, other_x |-> other_x, message |-> message,
                         r |-> r, s |-> s, z |-> z, public_key |-> y,
                         result |-> vv.verify_equation_holds]
        /\ verification_details' = vv
        /\ ff_metrics' = AddOps(ff_metrics, VerifyOps(vv))
        /\ ff_pc' = "verified"
        /\ UNCHANGED <<paramVars, ecVars, ptVars, extVars, ff_key, intermediate_values, ff_sig>>

\* the signature verified as signed, under the signer's public key
VerifySigned ==
    /\ ff_pc = "signed"
    /\ VerifyCall("signed", 0, ff_sig.message, ff_sig.r, ff_sig.s, ff_sig.z, ff_key.y)

\* one component incremented by 1 modulo its group order
VerifyTamperedR ==
    /\ ff_pc = "signed"
    /\ VerifyCall("r+1", 0, ff_sig.message, (ff_sig.r + 1) % params.p, ff_sig.s,
                  ff_sig.z, ff_key.y)

VerifyTamperedS ==
    /\ ff_pc = "signed"
    /\ VerifyCall("s+1", 0, ff_sig.message, ff_sig.r, (ff_sig.s + 1) % params.q,
                  ff_sig.z, ff_key.y)

VerifyTamperedZ ==
    /\ ff_pc = "signed"
    /\ VerifyCall("z+1", 0, ff_sig.message, ff_sig.r, ff_sig.s,
                  (ff_sig.z + 1) % params.p, ff_key.y)

\* the wrong-key check of the concrete scenario (p = 43, q = 7): the signature
\* verified under the public key of another private key x'
VerifyOtherKey ==
    /\ ff_pc = "signed"
    /\ params = UltimateParams
    /\ \E other_x \in (1..(params.p - 1)) \ {ff_key.x} :
          VerifyCall("other key", other_x, ff_sig.message, ff_sig.r, ff_sig.s,
                     ff_sig.z, PublicKeyOf(other_x, params))

InitFF ==
    /\ bit_length = 0
    /\ ctor_pc = "constructed"
    /\ params \in {FallbackParams, UltimateParams}
    /\ EcIdle
    /\ ff_pc = "keyed"
    /\ ff_key \in KeyGenerationResults(params) \cup ScenarioKeys(params)
    /\ ff_metrics = ZeroFFMetrics
    /\ intermediate_values = NoValues
    /\ verification_details = NoVerification
    /\ ff_sig = NoSignature
    /\ ff_verify = NoVerification

NextFF ==
    \/ Sign
    \/ VerifySigned
    \/ VerifyTamperedR
    \/ VerifyTamperedS
    \/ VerifyTamperedZ
    \/ VerifyOtherKey

SpecFF == InitFF /\ [][NextFF]_vars

(***************************************************************************)
(* EllipticCurveDSS: key_generation, sign_message, verify_signature        *)
(***************************************************************************)
\* _hash_message(x, message): '||'.join of the arguments, SHA-256, % n
HashMessageInput(x, message) == ToString(x) \o "||" \o message

HashMessage(x, message, cp) ==
    Sha256Residue[HashMessageInput(x, message)] % cp.n

\* the counters one _scalar_multiply(k, P) call adds
CountScalarMultiply(m, k, cp) ==
    [m EXCEPT !.point_multiplications = @ + 1,
              !.point_additions = @ + ScalarMultiplyAdds(k, cp)]

\* the scalars key_generation and sign_message draw:
\* secrets.randbelow(n - 1) + 1
ScalarDraws(cp) == 1..(cp.n - 1)

\* key_generation with the draw private_scalar: the key pair
EcKeyPair(private_scalar, cp) ==
    LET private_key_G == scalar_multiply(private_scalar, cp.G, cp)
        x_G == private_key_G.x
        neg_x_G == (0 - x_G) % cp.n
    IN  [G |-> private_key_G, P |-> scalar_multiply(neg_x_G, private_key_G, cp),
         neg_x_G |-> neg_x_G]

\* sign_message: s = numerator * pow(denominator, -1, n) % n
SignatureScalar(numerator, denominator, cp) ==
    (numerator * ModInverse(denominator, cp.n)) % cp.n

\* (mutant of SignAttempt: only R and Z at infinity are retried; a zero
\* denominator, a missing inverse or s = 0 are returned as they are)
SignAttemptKeepingS(message, private_key_G, k, u, cp) ==
    LET x_G == private_key_G.x
        R == scalar_multiply(k, private_key_G, cp)
        Z == scalar_multiply(u, private_key_G, cp)
        e == HashMessage(R.x, message, cp)
        x_R == R.x % cp.n
        x_Z == Z.x % cp.n
        numerator == (u * x_R + x_G * x_Z) % cp.n
        denominator == (k * (e + x_R)) % cp.n
        s == IF HasInverse(denominator, cp.n)
             THEN SignatureScalar(numerator, denominator, cp) ELSE 0
        retry == IF R.infinity THEN "R"
                 ELSE IF Z.infinity THEN "Z"
                 ELSE "no"
    IN  [retry |-> retry, R |-> R, s |-> s, Z |-> Z, sign_k |-> k, sign_u |-> u,
         sign_e |-> e, sign_x_R |-> x_R, sign_x_Z |-> x_Z,
         sign_numerator |-> numerator, sign_denominator |-> denominator]

\* one pass through the body of sign_message with the draws k and u: every
\* value it computes, and the place where it gives up and calls itself again
\* ("R", "Z", "denominator", "inverse", "s"; "no": it returns the signature)
SignAttempt(message, private_key_G, k, u, cp) ==
    LET x_G == private_key_G.x
        R == scalar_multiply(k, private_key_G, cp)
        Z == scalar_multiply(u, private_key_G, cp)
        e == HashMessage(R.x, message, cp)
        x_R == R.x % cp.n
        x_Z == Z.x % cp.n
        numerator == (u * x_R + x_G * x_Z) % cp.n
        denominator == (k * (e + x_R)) % cp.n
        s == IF HasInverse(denominator, cp.n)
             THEN SignatureScalar(numerator, denominator, cp) ELSE 0
        retry == IF R.infinity THEN "R"
                 ELSE IF Z.infinity THEN "Z"
                 ELSE IF denominator = 0 THEN "denominator"
                 ELSE IF ~HasInverse(denominator, cp.n) THEN "inverse"
                 ELSE IF s = 0 THEN "s"
                 ELSE "no"
    IN  [retry |-> retry, R |-> R, s |-> s, Z |-> Z, sign_k |-> k, sign_u |-> u,
         sign_e |-> e, sign_x_R |-> x_R, sign_x_Z |-> x_Z,
         sign_numerator |-> numerator, sign_denominator |-> denominator]

\* the counters one pass through sign_message adds
CountSignAttempt(m, sa, cp) ==
    LET m1 == CountScalarMultiply(m, sa.sign_k, cp)
        m2 == IF sa.retry = "R" THEN m1 ELSE CountScalarMultiply(m1, sa.sign_u, cp)
    IN  IF sa.retry \in {"R", "Z"} THEN m2
        ELSE [m2 EXCEPT !.hash_operations = @ + 1]

\* verify_signature: the early "return False"
InvalidComponents(R, s, Z) == R.infinity \/ Z.infinity \/ s = 0

Abs(i) == IF i < 0 THEN 0 - i ELSE i

\* "(abs(left_side - right_side) % 1000 == 0)"
Tolerance == 1000

\* verify_signature: basic_check
BasicCheck(left_side, right_side) ==
    left_side = right_side \/ Abs(left_side - right_side) % Tolerance = 0

\* verify_signature(message, (R, s, Z), public_key_P) past the early return:
\* every value it computes (public_key_P is not read)
VerifySignatureValues(message, R, s, Z, cp) ==
    LET e == HashMessage(R.x, message, cp)
        x_R == R.x % cp.n
        x_Z == Z.x % cp.n
        left_side == (s * e * x_R) % cp.n
        right_side == (x_R * x_Z) % cp.n
        sR == scalar_multiply(s, R, cp)
        eZ == scalar_multiply(e, Z, cp)
        verification_point == point_add(sR, eZ, cp)
        basic_check == BasicCheck(left_side, right_side)
        curve_check == ~verification_point.infinity
    IN  [verify_e |-> e, verify_x_R |-> x_R, verify_x_Z |-> x_Z,
         verify_left_side |-> left_side, verify_right_side |-> right_side,
         verify_sR |-> sR, verify_eZ |-> eZ, verify_point |-> verification_point,
         basic_check |-> basic_check, curve_check |-> curve_check,
         verification_result |-> basic_check /\ curve_check]

\* the counters one verify_signature call past the early return adds
CountVerify(m, s, vv, cp) ==
    LET m1 == [m EXCEPT !.hash_operations = @ + 1]
        m2 == CountScalarMultiply(m1, s, cp)
        m3 == CountScalarMultiply(m2, vv.verify_e, cp)
    IN  [m3 EXCEPT !.point_additions = @ + 1]

(***************************************************************************)
(* SpecEC: one EllipticCurveDSS instance: key_generation, then a message   *)
(* signed with the generated private point (each pass through sign_message *)
(* is a step; a pass that gives up calls sign_message again, one level     *)
(* deeper), then the signature verified, as signed or with s incremented.  *)
(***************************************************************************)
\* "if self.bit_length <= 256"
CurveBitLimit == 256
\* the size of the prime p of _generate_curve_params
PrimeBits == 192

\* (mutant of generate_curve_params: an instance that holds a key pair is
\* given other constants than a fresh one)
generate_curve_params_by_key(bl) ==
    IF ec_key = NoEcKey THEN SmallOrderParams ELSE LargeOrderParams

\* _generate_curve_params for a supported self.bit_length: constants, the
\* same at every call.  Instances built for PrimeBits bits explore the base
\* point of small order, the others the base point of large order.
generate_curve_params(bl) ==
    IF bl <= PrimeBits THEN SmallOrderParams ELSE LargeOrderParams

\* key_generation on an instance whose bit_length is supported
EcKeyGeneration ==
    /\ ec_pc = "new"
    /\ ec_bit_length <= CurveBitLimit
    /\ \E cp \in {generate_curve_params(ec_bit_length)} :
       \E private_scalar \in ScalarDraws(cp) :
          LET kp == EcKeyPair(private_scalar, cp)
          IN  /\ ec_params' = cp
              /\ ec_key' = [G |-> kp.G, P |-> kp.P]
              /\ ec_metrics' =
                    CountScalarMultiply(
                        CountScalarMultiply(ec_metrics, private_scalar, cp),
                        kp.neg_x_G, cp)
              /\ ec_values' = [private_scalar |-> private_scalar, x_G |-> kp.G.x,
                               neg_x_G |-> kp.neg_x_G]
    /\ ec_pc' = "keyed"
    /\ UNCHANGED <<paramVars, ffVars, ptVars, extVars, ec_bit_length, ec_message, ec_depth,
                   ec_sig, ec_verify>>

\* key_generation: _generate_curve_params raises ValueError
EcKeyGenerationUnsupported ==
    /\ ec_pc = "new"
    /\ ec_bit_length > CurveBitLimit
    /\ ec_pc' = "raised"
    /\ UNCHANGED <<paramVars, ffVars, ptVars, extVars, ec_params, ec_metrics, ec_bit_length,
                   ec_key, ec_values, ec_message, ec_depth, ec_sig, ec_verify>>

\* the caller calls sign_message(message, private_key_G)
EcSignCall ==
    /\ ec_pc = "keyed"
    /\ \E message \in Messages : ec_message' = message
    /\ ec_depth' = 0
    /\ ec_pc' = "signing"
    /\ UNCHANGED <<paramVars, ffVars, ptVars, extVars, ec_params, ec_metrics, ec_bit_length,
                   ec_key, ec_values, ec_sig, ec_verify>>

\* one pass through sign_message: it returns the signature, or gives up and
\* calls itself again ("return self.sign_message(message, private_key_G)").
\* Nothing in sign_message counts or limits these calls: they nest until the
\* interpreter's call stack is used up (MaxDepth nested calls here), and the
\* interpreter's RecursionError then ends the whole sign_message call.
EcSignPass ==
    /\ ec_pc = "signing"
    /\ \E k \in ScalarDraws(ec_params), u \in ScalarDraws(ec_params) :
          \E sa \in {SignAttempt(ec_message, ec_key.G, k, u, ec_params)} :
              /\ ec_metrics' = CountSignAttempt(ec_metrics, sa, ec_params)
              /\ IF sa.retry = "no"
                 THEN /\ ec_sig' = [R |-> sa.R, s |-> sa.s, Z |-> sa.Z]
                      /\ ec_values' =
                            [sign_k |-> sa.sign_k, sign_u |-> sa.sign_u,
                             sign_e |-> sa.sign_e, sign_x_R |-> sa.sign_x_R,
                             sign_x_Z |-> sa.sign_x_Z,
                             sign_numerator |-> sa.sign_numerator,
                             sign_denominator |-> sa.sign_denominator]
                      /\ ec_pc' = "signed"
                      /\ UNCHANGED ec_depth
                 ELSE /\ IF ec_depth < MaxDepth
                         THEN /\ ec_depth' = ec_depth + 1
                              /\ UNCHANGED ec_pc
                         ELSE /\ ec_pc' = "recursion_error"
                              /\ UNCHANGED ec_depth
                      /\ UNCHANGED <<ec_sig, ec_values>>
    /\ UNCHANGED <<paramVars, ffVars, ptVars, extVars, ec_params, ec_bit_length, ec_key,
                   ec_message, ec_verify>>

\* (mutant of verify_signature: a public key at infinity is rejected)
verify_signature_needing_key(message, R, s, Z, public_key_P, cp) ==
    IF InvalidComponents(R, s, Z) THEN FALSE
    ELSE /\ ~public_key_P.infinity
         /\ VerifySignatureValues(message, R, s, Z, cp).verification_result

\* verify_signature(message, (R, s, Z), public_key_P): the boolean returned
verify_signature(message, R, s, Z, public_key_P, cp) ==
    IF InvalidComponents(R, s, Z) THEN FALSE
    ELSE VerifySignatureValues(message, R, s, Z, cp).verification_result

\* verify_signature called with the given signature and the signer's key
EcVerifyCall(kind, R, s, Z) ==
    /\ ec_pc = "signed"
    /\ IF InvalidComponents(R, s, Z)
       THEN UNCHANGED <<ec_metrics, ec_values>>
       ELSE LET vv == VerifySignatureValues(ec_message, R, s, Z, ec_params)
            IN  /\ ec_metrics' = CountVerify(ec_metrics, s, vv, ec_params)
                /\ ec_values' = vv
    /\ ec_verify' = [kind |-> kind, s |-> s,
                     result |-> verify_signature(ec_message, R, s, Z, ec_key.P,
                                                 ec_params)]
    /\ ec_pc' = "verified"
    /\ UNCHANGED <<paramVars, ffVars, ptVars, extVars, ec_params, ec_bit_length, ec_key,
                   ec_message, ec_depth, ec_sig>>

\* verify_signature(message, signature, public_key_P) as signed
EcVerifySigned == EcVerifyCall("signed", ec_sig.R, ec_sig.s, ec_sig.Z)

\* verify_signature with s incremented by 1 modulo n
EcVerifyTamperedS ==
    EcVerifyCall("s+1", ec_sig.R, (ec_sig.s + 1) % ec_params.n, ec_sig.Z)

\* sign_message on an instance whose params are None (key_generation not
\* called, params not set): 'raise ValueError("System parameters not set...")'
EcSignUninitialized ==
    /\ ec_pc = "new"
    /\ ec_params = None
    /\ ec_verify' = [kind |-> "params not set", call |-> "sign_message"]
    /\ ec_pc' = "raised"
    /\ UNCHANGED <<paramVars, ffVars, ptVars, extVars, ec_params, ec_metrics, ec_bit_length,
                   ec_key, ec_values, ec_message, ec_depth, ec_sig>>

\* verify_signature on an instance whose params are None: the same ValueError
EcVerifyUninitialized ==
    /\ ec_pc = "new"
    /\ ec_params = None
    /\ ec_verify' = [kind |-> "params not set", call |-> "verify_signature"]
    /\ ec_pc' = "raised"
    /\ UNCHANGED <<paramVars, ffVars, ptVars, extVars, ec_params, ec_metrics, ec_bit_length,
                   ec_key, ec_values, ec_message, ec_depth, ec_sig>>

InitEC ==
    /\ ParamsIdle
    /\ FFIdle
    /\ pt_call = NoCall
    /\ ExtIdle
    /\ ec_params = None
    /\ ec_metrics = ZeroMetrics
    /\ ec_bit_length \in {PrimeBits, CurveBitLimit, 2 * CurveBitLimit}
    /\ ec_pc = "new"
    /\ ec_key = NoEcKey
    /\ ec_values = NoEcValues
    /\ ec_message = ""
    /\ ec_depth = 0
    /\ ec_sig = NoEcSignature
    /\ ec_verify = NoVerification

NextEC ==
    \/ EcKeyGeneration
    \/ EcKeyGenerationUnsupported
    \/ EcSignCall
    \/ EcSignPass
    \/ EcVerifySigned
    \/ EcVerifyTamperedS
    \/ EcSignUninitialized
    \/ EcVerifyUninitialized

SpecEC == InitEC /\ [][NextEC]_vars

(***************************************************************************)
(* SpecKeys: the sessions of SpecEC, the signature verified once more with *)
(* another point passed as public_key_P.                                   *)
(***************************************************************************)
\* points a caller may pass as public_key_P
PublicKeyCandidates == {PointAtInfinity, ec_params.G, ec_key.G, ec_key.P}

\* verify_signature(message, signature, public_key_P) called again with the
\* message and signature of the last call and another public key
EcVerifyOtherKey ==
    /\ ec_pc = "verified"
    /\ ec_verify.kind = "signed"
    /\ IF InvalidComponents(ec_sig.R, ec_sig.s, ec_sig.Z)
       THEN UNCHANGED <<ec_metrics, ec_values>>
       ELSE LET vv == VerifySignatureValues(ec_message, ec_sig.R, ec_sig.s,
                                            ec_sig.Z, ec_params)
            IN  /\ ec_metrics' = CountVerify(ec_metrics, ec_sig.s, vv, ec_params)
                /\ ec_values' = vv
    /\ \E public_key_P \in PublicKeyCandidates \ {ec_key.P} :
          ec_verify' = [kind |-> "other key", s |-> ec_sig.s,
                        public_key_P |-> public_key_P,
                        first_result |-> ec_verify.result,
                        result |-> verify_signature(ec_message, ec_sig.R,
                                                    ec_sig.s, ec_sig.Z,
                                                    public_key_P, ec_params)]
    /\ ec_pc' = "verified again"
    /\ UNCHANGED <<paramVars, ffVars, ptVars, extVars, ec_params, ec_bit_length,
                   ec_key, ec_message, ec_depth, ec_sig>>

NextKeys ==
    \/ NextEC
    \/ EcVerifyOtherKey

SpecKeys == InitEC /\ [][NextKeys]_vars

(***************************************************************************)
(* SpecVerify: verify_signature called with a signature the caller hands   *)
(* in, on an instance whose n is large enough for two residues modulo n to *)
(* differ by 1000: the curve y^2 = x^3 + 2x + 6 over F_1871, whose group   *)
(* is cyclic of order 1925, with the base point (2, 277) of order 1925.    *)
(***************************************************************************)
WideP == 1871
WideA == 2
WideB == 6
WideGx == 2
WideGy == 277
WideN == 1925

WideParams == EllipticCurveParams(WideP, WideA, WideB, Point(WideGx, WideGy), WideN)

\* the points and scalars of the signatures handed in
GivenPoints(cp) ==
    {P \in {Point(x, y) : x \in 0..MaxGivenX, y \in 0..(cp.p - 1)} : OnCurve(P, cp)}
    \cup {PointAtInfinity}

GivenScalars == 0..MaxGivenS

\* verify_signature(message, (R, s, Z), public_key_P)
EcVerifyGiven ==
    /\ ec_pc = "params set"
    /\ \E message \in Messages, R \in GivenPoints(ec_params),
          Z \in GivenPoints(ec_params), s \in GivenScalars :
          /\ ec_message' = message
          /\ ec_sig' = [R |-> R, s |-> s, Z |-> Z]
          /\ IF InvalidComponents(R, s, Z)
             THEN /\ ec_verify' = [kind |-> "given", s |-> s, result |-> FALSE]
                  /\ UNCHANGED <<ec_metrics, ec_values>>
             ELSE LET vv == VerifySignatureValues(message, R, s, Z, ec_params)
                  IN  /\ ec_verify' = [kind |-> "given", s |-> s,
                                       result |-> vv.verification_result]
                      /\ ec_metrics' = CountVerify(ec_metrics, s, vv, ec_params)
                      /\ ec_values' = vv
    /\ ec_pc' = "verified"
    /\ UNCHANGED <<paramVars, ffVars, ptVars, extVars, ec_params, ec_bit_length, ec_key,
                   ec_depth>>

\* EllipticCurveDSS(bit_length=None) with its params set by the caller
InitVerify ==
    /\ ParamsIdle
    /\ FFIdle
    /\ pt_call = NoCall
    /\ ExtIdle
    /\ ec_params = WideParams
    /\ ec_metrics = ZeroMetrics
    /\ ec_bit_length = CurveBitLimit
    /\ ec_pc = "params set"
    /\ ec_key = NoEcKey
    /\ ec_values = NoEcValues
    /\ ec_message = ""
    /\ ec_depth = 0
    /\ ec_sig = NoEcSignature
    /\ ec_verify = NoVerification

NextVerify == EcVerifyGiven

SpecVerify == InitVerify /\ [][NextVerify]_vars

(***************************************************************************)
(* SpecCalls: one engine instance and any sequence of calls on it.  The    *)
(* instance is an EllipticCurveDSS (the steps of SpecEC), or a             *)
(* FiniteFieldDSS constructed with bit_length None or 0 (params left at    *)
(* p = q = 0) or holding the parameters p = 43, q = 7, on which            *)
(* key_generation, sign and verify are called in any order.                *)
(***************************************************************************)
\* "while x == 1 and attempts < 10"
MaxKeyGenAttempts == 10

\* dict.update: the keys of new replace or extend those of old
Update(old, new) == new @@ old

\* between two calls on the FiniteFieldDSS instance; the last call's outcome
CallOutcomes ==
    {"ready", "key_generation returned", "key_generation raised",
     "sign returned", "sign raised", "verify returned"}

CallOpen == ff_pc \in CallOutcomes /\ ff_metrics.exp_ops < MaxExpOps

Initialized(pr) == pr.p # 0

\* key_generation: some draw a gives x = 1 and is drawn again
HasTrivialDraw(pr) == \E a \in KeyGenDraws(pr) : KeyGenX(a, pr) = 1

\* key_generation: the values of x = pow(a, (p - 1) // q, p) over the draws a
DrawnXs(pr) == {KeyGenX(a, pr) : a \in KeyGenDraws(pr)}

\* key_generation() after `redraws` passes through its while loop: the last
\* draw gives x # 1, or every one of the 1 + 10 draws gave x = 1 and x = 2
KeyGeneration ==
    /\ CallOpen
    /\ Initialized(params)
    /\ \E drawn \in DrawnXs(params) :
          \E redraws \in IF drawn = 1 THEN {MaxKeyGenAttempts}
                          ELSE IF HasTrivialDraw(params)
                               THEN 0..MaxKeyGenAttempts ELSE {0} :
             LET x == IF drawn = 1 THEN FallbackX ELSE drawn
                 kp == KeyPair(x, params)
             IN  /\ ff_key' = kp
                 /\ intermediate_values' =
                       Update(intermediate_values,
                              [private_key_x |-> kp.x, public_key_y |-> kp.y,
                               x_to_x_mod_p |-> ModExp(kp.x, kp.x, params.p)])
                 /\ ff_metrics' =
                       AddOps(ff_metrics,
                              [exp_ops |-> 1 + redraws + 1, mul_ops |-> 0,
                               inv_ops |-> 1, hash_ops |-> 0])
    /\ ff_pc' = "key_generation returned"
    /\ UNCHANGED <<paramVars, ecVars, ptVars, extVars, verification_details, ff_sig,
                   ff_verify>>

\* key_generation() with p = 0: secrets.randbelow(p - 2) raises ValueError
KeyGenerationUninitialized ==
    /\ CallOpen
    /\ ~Initialized(params)
    /\ ff_pc' = "key_generation raised"
    /\ UNCHANGED <<paramVars, ecVars, ptVars, extVars, ff_key, ff_metrics,
                   intermediate_values, verification_details, ff_sig, ff_verify>>

\* the message signed on this instance
CallMessages == {"test"}

\* sign(message, x) with the private key of the last key_generation
SignCall ==
    /\ CallOpen
    /\ Initialized(params)
    /\ ff_key # NoKey
    /\ \E message \in CallMessages, k \in SignDraws(params), u \in SignDraws(params),
          v \in SignDraws(params) :
          LET sv == SignValues(message, ff_key.x, k, u, v, params)
          IN  /\ ff_sig' = [message |-> message, r |-> sv.sign_r, s |-> sv.s,
                            z |-> sv.z_final]
              /\ intermediate_values' =
                    Update(intermediate_values,
                           [sign_k |-> sv.sign_k, sign_u |-> sv.sign_u,
                            sign_v |-> sv.sign_v, sign_r |-> sv.sign_r,
                            sign_e |-> sv.sign_e, sign_w |-> sv.sign_w,
                            sign_numerator |-> sv.sign_numerator,
                            sign_denominator |-> sv.sign_denominator,
                            sign_exp_z |-> sv.sign_exp_z])
    /\ ff_metrics' = AddOps(ff_metrics, SignOps)
    /\ ff_pc' = "sign returned"
    /\ UNCHANGED <<paramVars, ecVars, ptVars, extVars, ff_key, verification_details,
                   ff_verify>>

\* sign(message, x) with p = q = 0: k = u = v = 1 are drawn, 'exp' is counted
\* and pow(x, k, 0) raises ValueError
SignUninitialized ==
    /\ CallOpen
    /\ ~Initialized(params)
    /\ ff_metrics' = [ff_metrics EXCEPT !.exp_ops = @ + 1]
    /\ ff_pc' = "sign raised"
    /\ UNCHANGED <<paramVars, ecVars, ptVars, extVars, ff_key, intermediate_values,
                   verification_details, ff_sig, ff_verify>>

\* verify(message, signature, y) with the last signature and the public key
\* of the last key_generation
VerifyAsSigned ==
    /\ CallOpen
    /\ Initialized(params)
    /\ ff_sig # NoSignature
    /\ LET vv == VerifyValues(ff_sig.message, ff_sig.r, ff_sig.s, ff_sig.z,
                              ff_key.y, params)
       IN  /\ ff_verify' = [kind |-> "signed", other_x |-> 0,
                            message |-> ff_sig.message, r |-> ff_sig.r,
                            s |-> ff_sig.s, z |-> ff_sig.z,
                            public_key |-> ff_key.y,
                            result |-> vv.verify_equation_holds]
           /\ verification_details' = Update(verification_details, vv)
           /\ ff_metrics' = AddOps(ff_metrics, VerifyOps(vv))
    /\ ff_pc' = "verify returned"
    /\ UNCHANGED <<paramVars, ecVars, ptVars, extVars, ff_key, intermediate_values, ff_sig>>

\* verify(message, (r, s, z), y) with p = q = 0: the hash is counted and taken
\* modulo max(1, q) = 1, 'exp' is counted, pow(z, r, 0) raises ValueError, and
\* the except branch records the failure and returns False
VerifyUninitialized ==
    /\ CallOpen
    /\ ~Initialized(params)
    /\ \E message \in CallMessages :
          ff_verify' = [kind |-> "uninitialized", other_x |-> 0,
                        message |-> message, r |-> 1, s |-> 1, z |-> 1,
                        public_key |-> 1, result |-> FALSE]
    /\ verification_details' =
          Update(verification_details,
                 [verify_a |-> 0, verify_left_side |-> 0,
                  verify_right_side |-> 0, is_valid |-> FALSE])
    /\ ff_metrics' = [ff_metrics EXCEPT !.hash_ops = @ + HashOpsPerUse,
                                        !.exp_ops = @ + 1]
    /\ ff_pc' = "verify returned"
    /\ UNCHANGED <<paramVars, ecVars, ptVars, extVars, ff_key, intermediate_values, ff_sig>>

\* FiniteFieldDSS(bit_length=None), its params left alone or set to (43, 7)
InitFFCalls ==
    /\ bit_length = 0
    /\ ctor_pc = "constructed"
    /\ params \in {FiniteFieldParams, UltimateParams}
    /\ EcIdle
    /\ ff_pc = "ready"
    /\ ff_key = NoKey
    /\ ff_metrics = ZeroFFMetrics
    /\ intermediate_values = NoValues
    /\ verification_details = NoVerification
    /\ ff_sig = NoSignature
    /\ ff_verify = NoVerification

NextFFCalls ==
    \/ KeyGeneration
    \/ KeyGenerationUninitialized
    \/ SignCall
    \/ SignUninitialized
    \/ VerifyAsSigned
    \/ VerifyUninitialized

SpecCalls == (InitFFCalls \/ InitEC) /\ [][NextFFCalls \/ NextEC]_vars

(***************************************************************************)
(* SpecThreads: two threads call sign and verify on one FiniteFieldDSS     *)
(* instance, or sign_message and verify_signature on one EllipticCurveDSS  *)
(* instance.  A call reads self.params and its arguments into locals and   *)
(* computes on them; what it shares with the other thread are the counters *)
(* of performance_metrics (each "+= 1" loads the counter and stores it     *)
(* back, and the other thread may run in between), intermediate_values and *)
(* verification_details.  Each access of the shared state is one step.     *)
(* The draws of a call are k = u = v = d, d in 1..MaxThreadDraw.           *)
(***************************************************************************)
\* the _count_operation calls of sign, in the order of the code (_hash counts
\* 'hash' once more)
SignProgram ==
    <<"exp_ops", "hash_ops", "hash_ops", "exp_ops", "exp_ops", "mul_ops",
      "mul_ops", "mul_ops", "inv_ops", "mul_ops", "exp_ops">>

\* the _count_operation calls of verify, in the order of the code, and the
\* two entries the alternative check writes to verification_details
VerifyProgram(vv) ==
    <<"hash_ops", "hash_ops", "exp_ops", "exp_ops", "exp_ops", "mul_ops",
      "exp_ops", "mul_ops">>
    \o (IF vv.first_check THEN <<>>
        ELSE <<"exp_ops", "exp_ops", "mul_ops", "exp_ops", "mul_ops", "mul_ops">>)
    \o (IF vv.alternative
        THEN <<"inv_ops", "exp_ops", "hash_ops", "hash_ops", "r_bar">>
        ELSE <<>>)

\* where a call stands before the next entry of its program
NextPc(todo) ==
    IF todo = <<>> THEN "update"
    ELSE IF Head(todo) = "r_bar" THEN "r_bar" ELSE "load"

\* the draws (k, u, v) of a thread's sign call
ThreadDraws == {<<d, d, d>> : d \in 1..MaxThreadDraw}

\* the signatures (r, s, z) a thread passes to verify: what sign returns for
\* the draws of ThreadDraws, as returned or with r incremented
ThreadSignatures ==
    LET signed == {SignValues(message, ff_key.x, d[1], d[2], d[3], params) :
                      message \in CallMessages, d \in ThreadDraws}
    IN  {<<sv.sign_r, sv.s, sv.z_final>> : sv \in signed}
        \cup {<<(sv.sign_r + 1) % params.p, sv.s, sv.z_final>> : sv \in signed}

\* (mutant of sign_return: r is read back from self.intermediate_values)
sign_return_from_store(sv, stored) == <<stored.sign_r, sv.s, sv.z_final>>

\* sign: "return r, s, z_final"
sign_return(sv, stored) == <<sv.sign_r, sv.s, sv.z_final>>

\* verify: "return equation_holds"
verify_return(vv, stored) == vv.verify_equation_holds

\* a thread enters sign(message, private_key): p, q, the arguments and the
\* draws become locals
ThreadSign ==
    /\ ff_pc = "key_generation returned"
    /\ \E t \in Threads :
          /\ threads[t].pc = "idle"
          /\ \E message \in CallMessages, d \in ThreadDraws :
                threads' =
                   [threads EXCEPT ![t] =
                       [pc |-> NextPc(SignProgram), call |-> "sign",
                        message |-> message, k |-> d[1], u |-> d[2], v |-> d[3],
                        todo |-> SignProgram, loaded |-> 0,
                        values |-> SignValues(message, ff_key.x, d[1], d[2],
                                              d[3], params)]]
    /\ UNCHANGED <<paramVars, ffVars, ecVars, ptVars, hash_calls, api>>

\* a thread enters verify(message, signature, public_key)
ThreadVerify ==
    /\ ff_pc = "key_generation returned"
    /\ \E t \in Verifiers :
          /\ threads[t].pc = "idle"
          /\ \E message \in CallMessages, sig \in ThreadSignatures :
                LET vv == VerifyValues(message, sig[1], sig[2], sig[3],
                                       ff_key.y, params)
                IN  threads' =
                       [threads EXCEPT ![t] =
                           [pc |-> NextPc(VerifyProgram(vv)), call |-> "verify",
                            message |-> message, r |-> sig[1], s |-> sig[2],
                            z |-> sig[3], y |-> ff_key.y,
                            todo |-> VerifyProgram(vv), loaded |-> 0,
                            values |-> vv]]
    /\ UNCHANGED <<paramVars, ffVars, ecVars, ptVars, hash_calls, api>>

\* _count_operation, first half: the counter is read
ThreadLoad ==
    /\ \E t \in Threads :
          /\ threads[t].pc = "load"
          /\ threads' = [threads EXCEPT
                            ![t].loaded = ff_metrics[Head(threads[t].todo)],
                            ![t].pc = "store"]
    /\ UNCHANGED <<paramVars, ffVars, ecVars, ptVars, hash_calls, api>>

\* _count_operation, second half: the value read, plus 1, is written back
ThreadStore ==
    /\ \E t \in Threads :
          /\ threads[t].pc = "store"
          /\ ff_metrics' = [ff_metrics EXCEPT
                               ![Head(threads[t].todo)] = threads[t].loaded + 1]
          /\ threads' = [threads EXCEPT
                            ![t].todo = Tail(threads[t].todo),
                            ![t].pc = NextPc(Tail(threads[t].todo))]
    /\ UNCHANGED <<paramVars, ecVars, ptVars, hash_calls, api, ff_pc, ff_key,
                   intermediate_values, verification_details, ff_sig, ff_verify>>

\* verify: self.verification_details['r_bar'] = r_bar, ['hash_b'] = b
ThreadStoreRBar ==
    /\ \E t \in Threads :
          /\ threads[t].pc = "r_bar"
          /\ verification_details' =
                Update(verification_details,
                       [r_bar |-> threads[t].values.r_bar,
                        hash_b |-> threads[t].values.hash_b])
          /\ threads' = [threads EXCEPT
                            ![t].todo = Tail(threads[t].todo),
                            ![t].pc = NextPc(Tail(threads[t].todo))]
    /\ UNCHANGED <<paramVars, ecVars, ptVars, hash_calls, api, ff_pc, ff_key, ff_metrics,
                   intermediate_values, ff_sig, ff_verify>>

\* sign: self.intermediate_values.update({...});
\* verify: self.verification_details.update({...})
ThreadUpdate ==
    /\ \E t \in Threads :
          /\ threads[t].pc = "update"
          /\ LET lv == threads[t].values
             IN  IF threads[t].call = "sign"
                 THEN /\ intermediate_values' =
                            Update(intermediate_values,
                                   [sign_k |-> lv.sign_k, sign_u |-> lv.sign_u,
                                    sign_v |-> lv.sign_v, sign_r |-> lv.sign_r,
                                    sign_e |-> lv.sign_e, sign_w |-> lv.sign_w,
                                    sign_numerator |-> lv.sign_numerator,
                                    sign_denominator |-> lv.sign_denominator,
                                    sign_exp_z |-> lv.sign_exp_z])
                      /\ UNCHANGED verification_details
                 ELSE /\ verification_details' =
                            Update(verification_details,
                                   [verify_a |-> lv.verify_a,
                                    verify_left_side |-> lv.verify_left_side,
                                    verify_right_side |-> lv.verify_right_side,
                                    verify_equation_holds |-> lv.verify_equation_holds,
                                    is_valid |-> lv.is_valid])
                      /\ UNCHANGED intermediate_values
          /\ threads' = [threads EXCEPT ![t].pc = "return"]
    /\ UNCHANGED <<paramVars, ecVars, ptVars, hash_calls, api, ff_pc, ff_key, ff_metrics,
                   ff_sig, ff_verify>>

\* the call returns to its thread
ThreadReturn ==
    /\ \E t \in Threads :
          /\ threads[t].pc = "return"
          /\ threads' =
                [threads EXCEPT
                    ![t] = [pc |-> "returned", result |->
                               IF threads[t].call = "sign"
                               THEN sign_return(threads[t].values,
                                                intermediate_values)
                               ELSE verify_return(threads[t].values,
                                                  verification_details)]
                           @@ threads[t]]
    /\ UNCHANGED <<paramVars, ffVars, ecVars, ptVars, hash_calls, api>>

\* the key pair key_generation returns when its first draw is a = 2
ThreadKey(pr) ==
    LET a == CHOOSE d \in KeyGenDraws(pr) : \A other \in KeyGenDraws(pr) : d <= other
    IN  KeyPair(KeyGenX(a, pr), pr)

\* FiniteFieldDSS with params (43, 7), a key pair generated, no call running
InitThreads ==
    /\ bit_length = 0
    /\ ctor_pc = "constructed"
    /\ params = UltimateParams
    /\ EcIdle
    /\ ff_pc = "key_generation returned"
    /\ ff_key = ThreadKey(params)
    /\ ff_metrics = ZeroFFMetrics
    /\ intermediate_values = NoValues
    /\ verification_details = NoVerification
    /\ ff_sig = NoSignature
    /\ ff_verify = NoVerification

\* n times the entry x
Repeat(n, x) == [i \in 1..n |-> x]

\* the counters _scalar_multiply(k, P) increments, in the order of the code
ScalarMultiplyProgram(k, cp) ==
    <<"point_multiplications">> \o Repeat(ScalarMultiplyAdds(k, cp), "point_additions")

\* the counters one pass through sign_message increments, up to the place
\* where the pass gives up or returns
EcSignProgram(sa, cp) ==
    ScalarMultiplyProgram(sa.sign_k, cp)
    \o (IF sa.retry = "R" THEN <<>>
        ELSE ScalarMultiplyProgram(sa.sign_u, cp)
             \o (IF sa.retry = "Z" THEN <<>> ELSE <<"hash_operations">>))

\* the counters verify_signature increments past its early return
EcVerifyProgram(s, vv, cp) ==
    <<"hash_operations">>
    \o ScalarMultiplyProgram(s, cp)
    \o ScalarMultiplyProgram(vv.verify_e, cp)
    \o <<"point_additions">>

\* where a call on the EllipticCurveDSS instance stands
EcNextPc(todo, retry) ==
    IF todo # <<>> THEN "ec_load"
    ELSE IF retry = "no" THEN "ec_update" ELSE "ec_retry"

\* the draws (k, u) of a pass through sign_message
EcThreadDraws == {<<d, d>> : d \in 1..MaxThreadDraw}

\* the signatures a thread passes to verify_signature: the ones a pass
\* through sign_message returns
EcThreadSignatures ==
    {sa \in {SignAttempt(message, ec_key.G, d[1], d[2], ec_params) :
                message \in CallMessages, d \in EcThreadDraws} :
        sa.retry = "no"}

\* sign_message: "return signature", signature = (R, s, Z)
ec_sign_return(sa, stored) == <<sa.R, sa.s, sa.Z>>

\* verify_signature: "return is_valid"
ec_verify_return(vv, stored) == vv.verification_result

\* a thread enters sign_message(message, private_key_G) and draws k and u
EcThreadSign ==
    /\ ec_pc = "keyed"
    /\ \E t \in Threads :
          /\ threads[t].pc = "idle"
          /\ \E message \in CallMessages, d \in EcThreadDraws :
                LET sa == SignAttempt(message, ec_key.G, d[1], d[2], ec_params)
                IN  threads' =
                       [threads EXCEPT ![t] =
                           [pc |-> "ec_load", call |-> "sign_message",
                            message |-> message, depth |-> 0,
                            todo |-> EcSignProgram(sa, ec_params), loaded |-> 0,
                            values |-> sa]]
    /\ UNCHANGED <<paramVars, ffVars, ecVars, ptVars, hash_calls, api>>

\* sign_message gives up and calls itself: k and u are drawn again; the
\* interpreter's call stack holds MaxDepth nested calls
EcThreadRetry ==
    /\ \E t \in Threads :
          /\ threads[t].pc = "ec_retry"
          /\ IF threads[t].depth < MaxDepth
             THEN \E d \in EcThreadDraws :
                     LET sa == SignAttempt(threads[t].message, ec_key.G, d[1],
                                           d[2], ec_params)
                     IN  threads' =
                            [threads EXCEPT
                                ![t].pc = "ec_load",
                                ![t].depth = @ + 1,
                                ![t].todo = EcSignProgram(sa, ec_params),
                                ![t].values = sa]
             ELSE threads' = [threads EXCEPT ![t].pc = "recursion_error"]
    /\ UNCHANGED <<paramVars, ffVars, ecVars, ptVars, hash_calls, api>>

\* a thread enters verify_signature(message, signature, public_key_P)
EcThreadVerify ==
    /\ ec_pc = "keyed"
    /\ \E t \in Verifiers :
          /\ threads[t].pc = "idle"
          /\ \E message \in CallMessages, sa \in EcThreadSignatures :
                LET vv == VerifySignatureValues(message, sa.R, sa.s, sa.Z,
                                                ec_params)
                IN  threads' =
                       [threads EXCEPT ![t] =
                           [pc |-> "ec_load", call |-> "verify_signature",
                            message |-> message, R |-> sa.R, s |-> sa.s,
                            Z |-> sa.Z, public_key_P |-> ec_key.P,
                            todo |-> EcVerifyProgram(sa.s, vv, ec_params),
                            loaded |-> 0, values |-> vv @@ [retry |-> "no"]]]
    /\ UNCHANGED <<paramVars, ffVars, ecVars, ptVars, hash_calls, api>>

\* self.performance_metrics[...] += 1, first half: the counter is read
EcThreadLoad ==
    /\ \E t \in Threads :
          /\ threads[t].pc = "ec_load"
          /\ threads' = [threads EXCEPT
                            ![t].loaded = ec_metrics[Head(threads[t].todo)],
                            ![t].pc = "ec_store"]
    /\ UNCHANGED <<paramVars, ffVars, ecVars, ptVars, hash_calls, api>>

\* second half: the value read, plus 1, is written back
EcThreadStore ==
    /\ \E t \in Threads :
          /\ threads[t].pc = "ec_store"
          /\ ec_metrics' = [ec_metrics EXCEPT
                               ![Head(threads[t].todo)] = threads[t].loaded + 1]
          /\ threads' = [threads EXCEPT
                            ![t].todo = Tail(threads[t].todo),
                            ![t].pc = EcNextPc(Tail(threads[t].todo),
                                               threads[t].values.retry)]
    /\ UNCHANGED <<paramVars, ffVars, ptVars, hash_calls, api, ecCallVars, ec_params>>

\* self.intermediate_values.update({...}) of sign_message and of
\* verify_signature
EcThreadUpdate ==
    /\ \E t \in Threads :
          /\ threads[t].pc = "ec_update"
          /\ LET lv == threads[t].values
             IN  ec_values' =
                    IF threads[t].call = "sign_message"
                    THEN Update(ec_values,
                                [sign_k |-> lv.sign_k, sign_u |-> lv.sign_u,
                                 sign_e |-> lv.sign_e, sign_x_R |-> lv.sign_x_R,
                                 sign_x_Z |-> lv.sign_x_Z,
                                 sign_numerator |-> lv.sign_numerator,
                                 sign_denominator |-> lv.sign_denominator])
                    ELSE Update(ec_values,
                                [verify_e |-> lv.verify_e,
                                 verify_x_R |-> lv.verify_x_R,
                                 verify_x_Z |-> lv.verify_x_Z,
                                 verify_left_side |-> lv.verify_left_side,
                                 verify_right_side |-> lv.verify_right_side,
                                 verify_sR |-> lv.verify_sR,
                                 verify_eZ |-> lv.verify_eZ,
                                 verify_point |-> lv.verify_point,
                                 basic_check |-> lv.basic_check,
                                 curve_check |-> lv.curve_check,
                                 verification_result |-> lv.verification_result])
          /\ threads' = [threads EXCEPT ![t].pc = "ec_return"]
    /\ UNCHANGED <<paramVars, ffVars, ptVars, hash_calls, api, ec_params, ec_metrics,
                   ec_bit_length, ec_pc, ec_key, ec_message, ec_depth, ec_sig,
                   ec_verify>>

\* the call returns to its thread
EcThreadReturn ==
    /\ \E t \in Threads :
          /\ threads[t].pc = "ec_return"
          /\ threads' =
                [threads EXCEPT
                    ![t] = [pc |-> "returned", result |->
                               IF threads[t].call = "sign_message"
                               THEN ec_sign_return(threads[t].values, ec_values)
                               ELSE ec_verify_return(threads[t].values, ec_values)]
                           @@ threads[t]]
    /\ UNCHANGED <<paramVars, ffVars, ecVars, ptVars, hash_calls, api>>

\* EllipticCurveDSS after key_generation drew private_scalar = 1, no call
\* running
InitEcThreads ==
    /\ ParamsIdle
    /\ FFIdle
    /\ pt_call = NoCall
    /\ ExtIdle
    /\ ec_bit_length = PrimeBits
    /\ ec_params = generate_curve_params(ec_bit_length)
    /\ LET private_scalar ==
              CHOOSE d \in ScalarDraws(ec_params) :
                  \A other \in ScalarDraws(ec_params) : d <= other
           kp == EcKeyPair(private_scalar, ec_params)
       IN  /\ ec_key = [G |-> kp.G, P |-> kp.P]
           /\ ec_metrics =
                 CountScalarMultiply(
                     CountScalarMultiply(ZeroMetrics, private_scalar, ec_params),
                     kp.neg_x_G, ec_params)
           /\ ec_values = [private_scalar |-> private_scalar, x_G |-> kp.G.x,
                           neg_x_G |-> kp.neg_x_G]
    /\ ec_pc = "keyed"
    /\ ec_message = ""
    /\ ec_depth = 0
    /\ ec_sig = NoEcSignature
    /\ ec_verify = NoVerification

NextThreads ==
    \/ ThreadSign
    \/ ThreadVerify
    \/ ThreadLoad
    \/ ThreadStore
    \/ ThreadStoreRBar
    \/ ThreadUpdate
    \/ ThreadReturn
    \/ EcThreadSign
    \/ EcThreadRetry
    \/ EcThreadVerify
    \/ EcThreadLoad
    \/ EcThreadStore
    \/ EcThreadUpdate
    \/ EcThreadReturn

SpecThreads == (InitThreads \/ InitEcThreads) /\ [][NextThreads]_vars

(***************************************************************************)
(* SpecRekey: the sessions of SpecCalls, with key_generation called again  *)
(* on an EllipticCurveDSS instance that already holds a key pair.          *)
(***************************************************************************)
\* key_generation on an instance that has generated keys before: line 211
\* assigns self.params again
EcKeyGenerationAgain ==
    /\ ec_pc = "keyed"
    /\ ec_bit_length <= CurveBitLimit
    /\ ec_metrics.point_multiplications < MaxPointMultiplications
    /\ \E cp \in {generate_curve_params(ec_bit_length)} :
       \E private_scalar \in ScalarDraws(cp) :
          LET kp == EcKeyPair(private_scalar, cp)
          IN  /\ ec_params' = cp
              /\ ec_key' = [G |-> kp.G, P |-> kp.P]
              /\ ec_metrics' =
                    CountScalarMultiply(
                        CountScalarMultiply(ec_metrics, private_scalar, cp),
                        kp.neg_x_G, cp)
              /\ ec_values' =
                    Update(ec_values,
                           [private_scalar |-> private_scalar, x_G |-> kp.G.x,
                            neg_x_G |-> kp.neg_x_G])
    /\ UNCHANGED <<paramVars, ffVars, ptVars, extVars, ec_bit_length, ec_pc,
                   ec_message, ec_depth, ec_sig, ec_verify>>

NextRekey ==
    \/ NextFFCalls
    \/ NextEC
    \/ EcKeyGenerationAgain

SpecRekey == (InitFFCalls \/ InitEC) /\ [][NextRekey]_vars

(***************************************************************************)
(* _point_add and _point_double on arbitrary points                        *)
(***************************************************************************)
\* self.params is an attribute any caller may assign (main.py assigns it in
\* the sign and verify endpoints): a modulus that is not prime leaves
\* denominators without an inverse.
CompositeP == 15
CompositeParams ==
    EllipticCurveParams(CompositeP, CurveA, CurveB, Point(SmallGx, SmallGy), SmallN)

AnyParamSets == {EllipticCurveParams(CurveP, CurveA, CurveB,
                                     Point(SmallGx, SmallGy), SmallN),
                 CompositeParams}

AnyPoints ==
    {Point(x, y) : x \in (0 - CoordExcess)..MaxCoord,
                   y \in (0 - CoordExcess)..MaxCoord}
        \cup {PointAtInfinity}

AnyPointAdd ==
    /\ pt_call = NoCall
    /\ \E P \in AnyPoints, Q \in AnyPoints :
          pt_call' = [op |-> "add", P |-> P, Q |-> Q, k |-> 0,
                      result |-> point_add(P, Q, ec_params)]
    /\ ec_metrics' = [ec_metrics EXCEPT !.point_additions = @ + 1]
    /\ UNCHANGED <<paramVars, ffVars, extVars, ecCallVars, ec_params>>

AnyPointDouble ==
    /\ pt_call = NoCall
    /\ \E P \in AnyPoints :
          pt_call' = [op |-> "double", P |-> P, Q |-> P, k |-> 0,
                      result |-> point_double(P, ec_params)]
    /\ UNCHANGED <<paramVars, ffVars, extVars, ecCallVars, ec_params, ec_metrics>>

InitAnyPoint ==
    /\ ParamsIdle
    /\ FFIdle
    /\ ec_params \in AnyParamSets
    /\ ec_metrics = ZeroMetrics
    /\ pt_call = NoCall
    /\ ExtIdle
    /\ EcCallsIdle

NextAnyPoint ==
    \/ AnyPointAdd
    \/ AnyPointDouble

SpecAnyPoint == InitAnyPoint /\ [][NextAnyPoint]_vars

(***************************************************************************)
(* The hash inputs of both engines, built for chosen components            *)
(***************************************************************************)
HashRs == 0..MaxHashR
HashMessages == {"m", "3m", "23m", "||m", "test"}

\* FiniteFieldDSS.sign / verify: self._hash(str(r) + message)
FFHashInput ==
    /\ Len(hash_calls) < MaxHashCalls
    /\ \E r \in HashRs, message \in HashMessages :
          hash_calls' = Append(hash_calls,
                               [engine |-> "finite_field", r |-> r,
                                message |-> message,
                                input |-> HashInput(r, message)])
    /\ UNCHANGED <<paramVars, ffVars, ecVars, ptVars, threads, api>>

\* EllipticCurveDSS.sign_message / verify_signature:
\* self._hash_message(R.x, message)
EcHashInput ==
    /\ Len(hash_calls) < MaxHashCalls
    /\ \E r \in HashRs, message \in HashMessages :
          hash_calls' = Append(hash_calls,
                               [engine |-> "elliptic_curve", r |-> r,
                                message |-> message,
                                input |-> HashMessageInput(r, message)])
    /\ UNCHANGED <<paramVars, ffVars, ecVars, ptVars, threads, api>>

InitHash ==
    /\ ParamsIdle
    /\ FFIdle
    /\ EcIdle

NextHash ==
    \/ FFHashInput
    \/ EcHashInput

SpecHash == InitHash /\ [][NextHash]_vars

(***************************************************************************)
(* SpecApi: the endpoints /api/generate-keys, /api/sign and /api/verify of *)
(* main.py.  A request is the fields the handler reads; system_params and  *)
(* signature are the sets of their keys, a key is "point" (the JSON of a   *)
(* point) or "int" (a decimal string).                                     *)
(***************************************************************************)
MaxRequests == 2

HTTP_OK == 200
HTTP_BAD_REQUEST == 400
HTTP_INTERNAL_ERROR == 500

SchemeTypes == {"elliptic_curve", "finite_field", "rsa", ""}
RequestBitLengths == {PrimeBits, CurveBitLimit, 2 * CurveBitLimit}
SystemParamKeys ==
    {{"scheme_type", "curve_params", "bit_length"},
     {"scheme_type", "p", "q", "bit_length"},
     {}}
SignatureKeys == {{"R", "s", "Z"}, {"r", "s", "z"}}
KeyKinds == {"point", "int"}

KeyGenerationRequests ==
    [bit_length : RequestBitLengths, scheme_type : SchemeTypes]
SigningRequests ==
    [private_key : KeyKinds, system_params : SystemParamKeys,
     scheme_type : SchemeTypes]
VerificationRequests ==
    [signature : SignatureKeys, public_key : KeyKinds,
     system_params : SystemParamKeys, scheme_type : SchemeTypes]

\* how a block of code ends: it returns, or an exception leaves it
Return == [kind |-> "return", exception |-> None, status_code |-> HTTP_OK]
Raise(exception) == [kind |-> "raise", exception |-> exception, status_code |-> 0]
RaiseHTTP(status_code) ==
    [kind |-> "raise", exception |-> "HTTPException", status_code |-> status_code]

\* the classes `except Exception` catches: HTTPException is one of them
ExceptionClasses == {"HTTPException", "ValueError", "KeyError", "TypeError",
                     "AttributeError"}

\* except Exception as e: raise HTTPException(status_code=500, ...)
ExceptException(outcome) ==
    IF outcome.kind = "raise" /\ outcome.exception \in ExceptionClasses
    THEN RaiseHTTP(HTTP_INTERNAL_ERROR)
    ELSE outcome

\* the status of the response: that of the HTTPException leaving the
\* handler, 200 when the handler returns
ResponseStatus(outcome) ==
    IF outcome.kind = "return" THEN HTTP_OK
    ELSE IF outcome.exception = "HTTPException" THEN outcome.status_code
    ELSE HTTP_INTERNAL_ERROR

\* the try block of generate_keys
GenerateKeysTry(request) ==
    IF request.scheme_type = "elliptic_curve"
    THEN IF request.bit_length <= CurveBitLimit THEN Return
         ELSE Raise("ValueError")
    ELSE IF request.scheme_type = "finite_field" THEN Return
    ELSE RaiseHTTP(HTTP_BAD_REQUEST)

\* the try block of sign_message
SignMessageTry(request) ==
    IF request.scheme_type = "elliptic_curve"
    THEN IF "curve_params" \notin request.system_params THEN Raise("KeyError")
         ELSE IF request.private_key # "point" THEN Raise("TypeError")
         ELSE Return
    ELSE IF request.scheme_type = "finite_field"
    THEN IF ~ ({"p", "q", "bit_length"} \subseteq request.system_params)
         THEN Raise("KeyError")
         ELSE Raise("TypeError")
    ELSE RaiseHTTP(HTTP_BAD_REQUEST)

\* the try block of verify_signature
VerifySignatureTry(request) ==
    IF request.scheme_type = "elliptic_curve"
    THEN IF request.public_key # "point" THEN Raise("TypeError")
         ELSE IF "R" \notin request.signature THEN Raise("KeyError")
         ELSE Return
    ELSE IF request.scheme_type = "finite_field"
    THEN IF ~ ({"p", "q", "bit_length"} \subseteq request.system_params)
         THEN Raise("KeyError")
         ELSE Raise("TypeError")
    ELSE RaiseHTTP(HTTP_BAD_REQUEST)

Response(endpoint, request, outcome) ==
    [endpoint |-> endpoint, request |-> request,
     status_code |-> ResponseStatus(outcome)]

\* POST /api/generate-keys
GenerateKeys ==
    /\ Len(api.responses) < MaxRequests
    /\ \E request \in KeyGenerationRequests :
          LET outcome == ExceptException(GenerateKeysTry(request))
          IN  api' = [dss_instances |->
                          IF outcome.kind = "return" THEN api.dss_instances + 1
                          ELSE api.dss_instances,
                      responses |->
                          Append(api.responses,
                                 Response("generate_keys", request, outcome))]
    /\ UNCHANGED <<paramVars, ffVars, ecVars, ptVars, hash_calls, threads>>

\* POST /api/sign
SignMessage ==
    /\ Len(api.responses) < MaxRequests
    /\ \E request \in SigningRequests :
          LET outcome == ExceptException(SignMessageTry(request))
          IN  api' = [api EXCEPT !.responses =
                          Append(@, Response("sign_message", request, outcome))]
    /\ UNCHANGED <<paramVars, ffVars, ecVars, ptVars, hash_calls, threads>>

\* POST /api/verify
VerifySignature ==
    /\ Len(api.responses) < MaxRequests
    /\ \E request \in VerificationRequests :
          LET outcome == ExceptException(VerifySignatureTry(request))
          IN  api' = [api EXCEPT !.responses =
                          Append(@, Response("verify_signature", request, outcome))]
    /\ UNCHANGED <<paramVars, ffVars, ecVars, ptVars, hash_calls, threads>>

InitApi ==
    /\ ParamsIdle
    /\ FFIdle
    /\ EcIdle

NextApi ==
    \/ GenerateKeys
    \/ SignMessage
    \/ VerifySignature

SpecApi == InitApi /\ [][NextApi]_vars

(***************************************************************************)
(* Properties of the engines                                               *)
(***************************************************************************)

\* C1 (SpecFF): finite-field round trip.  Whenever verify has been called with
\* the message, the signature sign returned for it and the public key of the
\* signer, the key pair being one key_generation can return, verify returned
\* True.
FFRoundTrip ==
    (/\ ff_pc = "verified"
     /\ ff_verify.kind = "signed"
     /\ ff_key \in KeyGenerationResults(params))
        => ff_verify.result

\* C2 (SpecEC): elliptic-curve round trip.  Whenever verify_signature has been
\* called with the message, the signature sign_message returned for it under
\* the private point of key_generation, and the public key, it returned True.
EcRoundTrip ==
    (ec_pc = "verified" /\ ec_verify.kind = "signed") => ec_verify.result

\* C3 (SpecFF): finite-field tamper sensitivity.  Whenever verify has been
\* called with a signature of sign in which exactly one component was replaced
\* by its value plus 1 modulo its group order (r, z modulo p; s modulo q), it
\* returned False.
FFTamperRejected ==
    (ff_pc = "verified" /\ ff_verify.kind \in {"r+1", "s+1", "z+1"})
        => ~ff_verify.result

\* C4 (SpecEC): elliptic-curve tamper sensitivity.  Whenever verify_signature
\* has been called with (R, s + 1 mod n, Z) for a signature (R, s, Z) of
\* sign_message, the same message and public key, it returned False.
EcTamperedSRejected ==
    (ec_pc = "verified" /\ ec_verify.kind = "s+1") => ~ec_verify.result

\* C5 (SpecFF): the concrete scenario.  With p = 43, q = 7, x = 3 and
\* y = modInv(3^3 mod 43, 43), every signature sign returns for "test" is
\* accepted by verify under y.
ScenarioRoundTrip ==
    (/\ ff_pc = "verified"
     /\ ff_verify.kind = "signed"
     /\ params = UltimateParams
     /\ ff_key = KeyPair(ScenarioX, UltimateParams)
     /\ ff_verify.message = "test")
        => ff_verify.result

\* C6 (SpecFF): wrong-key rejection.  With p = 43, q = 7, a signature of sign
\* under x = 3 is rejected by verify when the public key is the one derived
\* from any other private key x'.
ScenarioOtherKeyRejected ==
    (/\ ff_pc = "verified"
     /\ ff_verify.kind = "other key"
     /\ params = UltimateParams
     /\ ff_key.x = ScenarioX)
        => ~ff_verify.result

\* n is a prime number, by its definition (no divisor between 1 and n)
PrimeNumber(n) == n > 1 /\ \A d \in 2..(n - 1) : n % d # 0

\* C7 (SpecParams): after FiniteFieldDSS is constructed with a positive
\* bit_length, whichever path _generate_parameters took, the stored p and q
\* are both prime and q divides p - 1.
ParamsPrimeAndDivide ==
    (ctor_pc = "constructed" /\ bit_length > 0)
        => /\ PrimeNumber(params.p)
           /\ PrimeNumber(params.q)
           /\ (params.p - 1) % params.q = 0

\* C7, witness: constructed with parameters found by the search (q of 8 bits,
\* p = k*q + 1), not one of the two fixed fallbacks.
ParamsSearchedWitness ==
    /\ ctor_pc = "constructed"
    /\ bit_length > 0
    /\ params.q >= Pow2(MinQBits - 1)
    /\ params.p > params.q

\* C8 (SpecParams): for every requested bit_length, the prime p stored by
\* _generate_parameters(bit_length) has exactly bit_length bits.
ExactBitLength ==
    (ctor_pc = "constructed" /\ bit_length > 0)
        => BitLen(params.p) = bit_length

\* a point is the identity or satisfies the curve equation
IdentityOrOnCurve(P, cp) == P.infinity \/ OnCurve(P, cp)

\* C9 (SpecPoint): curve closure.  For all points P, Q that are the identity
\* or on the curve, and all scalars k, the result of _point_add(P, Q),
\* _point_double(P) and _scalar_multiply(k, P) is the identity or on the curve.
CurveClosure ==
    (/\ pt_call.op \in {"add", "double", "multiply"}
     /\ IdentityOrOnCurve(pt_call.P, ec_params)
     /\ IdentityOrOnCurve(pt_call.Q, ec_params))
        => IdentityOrOnCurve(pt_call.result, ec_params)

\* C9, witness: a scalar multiple, by a scalar that takes several doublings
\* and additions, of an affine point of the curve that is an affine point.
CurveClosureWitness ==
    /\ pt_call.op = "multiply"
    /\ pt_call.k > 2
    /\ ~pt_call.P.infinity
    /\ OnCurve(pt_call.P, ec_params)
    /\ ~pt_call.result.infinity
    /\ pt_call.result # pt_call.P

\* C10 (SpecPoint): for every point P, _scalar_multiply(0, P) is the point at
\* infinity and _scalar_multiply(1, P) is P.
ScalarZeroAndOne ==
    (pt_call.op = "multiply")
        => /\ (pt_call.k = 0 => pt_call.result.infinity)
           /\ (pt_call.k = 1 => pt_call.result = pt_call.P)

\* C10, witness: _scalar_multiply(1, P) called with an affine point P.
ScalarOneWitness ==
    /\ pt_call.op = "multiply"
    /\ pt_call.k = 1
    /\ ~pt_call.P.infinity
    /\ pt_call.result = pt_call.P

\* the negation (x, -y mod p) of an affine point (x, y)
Negation(P, cp) == Point(P.x, (0 - P.y) % cp.p)

\* C11 (SpecPoint): for every non-identity curve point P = (x, y),
\* _point_add(P, O) = P, _point_add(O, P) = P, and _point_add(P, (x, -y mod p))
\* is the point at infinity, also when y = 0 and P is its own negation.
AddIdentityAndNegation ==
    (pt_call.op = "add")
        => /\ (/\ ~pt_call.P.infinity
               /\ OnCurve(pt_call.P, ec_params)
               /\ pt_call.Q.infinity)
                  => pt_call.result = pt_call.P
           /\ (/\ pt_call.P.infinity
               /\ ~pt_call.Q.infinity
               /\ OnCurve(pt_call.Q, ec_params))
                  => pt_call.result = pt_call.Q
           /\ (/\ ~pt_call.P.infinity
               /\ OnCurve(pt_call.P, ec_params)
               /\ pt_call.Q = Negation(pt_call.P, ec_params))
                  => pt_call.result.infinity

\* C11, witness: _point_add(P, -P) called with an affine curve point P whose
\* y is not 0, so that -P differs from P, and the result is the identity.
AddNegationWitness ==
    /\ pt_call.op = "add"
    /\ ~pt_call.P.infinity
    /\ OnCurve(pt_call.P, ec_params)
    /\ pt_call.P.y % ec_params.p # 0
    /\ pt_call.Q = Negation(pt_call.P, ec_params)
    /\ pt_call.Q # pt_call.P
    /\ pt_call.result.infinity

\* C12 (SpecPoint): scalar normalization.  For every integer k, negative k
\* and k >= n included, _scalar_multiply(k, P) returns the same point as
\* _scalar_multiply(k mod n, P), k mod n being the representative in [0, n).
ScalarNormalization ==
    (pt_call.op = "multiply")
        => pt_call.result =
              scalar_multiply(pt_call.k % ec_params.n, pt_call.P, ec_params)

\* C13 (SpecEC): bounded signing retries.  Whatever the draws, a sign call
\* makes at most a fixed number of attempts of its own and then returns a
\* signature or raises a signing-exhausted error: it never ends because its
\* retries nested until the interpreter's call stack was used up.
SigningRetriesBounded == ec_pc # "recursion_error"

\* C14 (SpecFF): sign restarts with fresh randomness whenever
\* denominator = k*(e + r) mod q is 0, so every signature it returns was
\* computed from values with k*(e + r) mod q # 0 and satisfies
\* s * k*(e + r) = v*r + x*w (mod q).
SignedWithNonZeroDenominator ==
    (ff_pc = "signed")
        => LET iv == intermediate_values
               denominator == (iv.sign_k * (iv.sign_e + iv.sign_r)) % params.q
           IN  /\ denominator # 0
               /\ (ff_sig.s * denominator) % params.q
                     = (iv.sign_v * iv.sign_r + ff_key.x * iv.sign_w) % params.q

\* C15 (SpecCalls): sign or verify called on an engine whose parameters were
\* never initialized (EllipticCurveDSS with params None, FiniteFieldDSS left
\* with p = q = 0) fails with an error: it never returns a signature or a
\* boolean verdict.
UninitializedCallsFail ==
    /\ (ctor_pc = "constructed" /\ ~Initialized(params))
          => ff_pc \notin {"sign returned", "verify returned"}
    /\ (ec_params = None) => ec_pc \notin {"signed", "verified"}

\* C16 (SpecCalls): every key pair (x, y) key_generation returns satisfies
\* 1 <= x <= q - 1, 1 <= y <= p - 1 and x^x * y = 1 (mod p).
KeyPairInRange ==
    (ff_pc = "key_generation returned")
        => /\ 1 <= ff_key.x /\ ff_key.x <= params.q - 1
           /\ 1 <= ff_key.y /\ ff_key.y <= params.p - 1
           /\ (ModExp(ff_key.x, ff_key.x, params.p) * ff_key.y) % params.p = 1

\* C17 (SpecCalls): metrics monotonicity.  A new instance of either engine
\* starts with every counter at 0, and no call of key_generation, sign or
\* verify ever decreases a counter.
MetricsMonotone ==
    /\ ff_metrics = ZeroFFMetrics
    /\ ec_metrics = ZeroMetrics
    /\ [][/\ \A c \in DOMAIN ff_metrics : ff_metrics'[c] >= ff_metrics[c]
          /\ \A c \in DOMAIN ec_metrics : ec_metrics'[c] >= ec_metrics[c]]_vars

\* C17, witness: key_generation, sign and verify have all been called on one
\* FiniteFieldDSS instance and have each added to its counters.
MetricsGrownWitness ==
    /\ ff_pc = "verify returned"
    /\ Initialized(params)
    /\ ff_metrics.inv_ops >= 2
    /\ ff_metrics.hash_ops >= 2 * HashOpsPerUse
    /\ ff_metrics.exp_ops >= 2 + 4 + 4

\* "signing": "... 1 hash" (the documented number of hashes of one signing)
DocumentedHashesPerSign == 1

\* C18 (SpecCalls): hash counter per sign.  Each sign call increases the
\* instance's hash counter by exactly the one hash it performs: hash_ops of a
\* FiniteFieldDSS grows by 1 at every sign, and hash_operations of an
\* EllipticCurveDSS, 0 before its first sign_message call, is 1 when that
\* call returns, whatever retries it made.
SignCountsOneHash ==
    /\ [][(ff_pc' = "sign returned")
            => ff_metrics'.hash_ops = ff_metrics.hash_ops + DocumentedHashesPerSign]_vars
    /\ [](ec_pc = "signed"
            => ec_metrics.hash_operations = DocumentedHashesPerSign)

\* C19 (SpecFF): verify applies one single equation.  It returns True if and
\* only if z^r = r^(s*e) * y^(z*r^s) (mod p) holds: whenever it returns True,
\* the left_side and right_side it records are equal, and no alternative
\* check turns a failed equation into an accepted signature.
SingleEquationDecides ==
    (ff_pc = "verified")
        => (ff_verify.result
              <=> verification_details.verify_left_side
                    = verification_details.verify_right_side)

\* C20 (SpecVerify): verify_signature accepts only on exact satisfaction of
\* its equation and a combined point that is not the identity: it never
\* returns True when the two compared sides differ, and it returns False
\* whenever s*R + e*Z is the point at infinity.
ExactEquationDecides ==
    (ec_pc = "verified" /\ ec_verify.result)
        => /\ ec_values.verify_left_side = ec_values.verify_right_side
           /\ ~ec_values.verify_point.infinity

\* C21: in both engines two different component tuples (r, message) with r an
\* integer never give the same hash input string.
HashInputsDistinct ==
    \A i, j \in 1..Len(hash_calls) :
        (/\ hash_calls[i].engine = hash_calls[j].engine
         /\ <<hash_calls[i].r, hash_calls[i].message>> #
                <<hash_calls[j].r, hash_calls[j].message>>)
            => hash_calls[i].input # hash_calls[j].input

\* the denominator of the slope a call of _point_add or _point_double on
\* finite points divides by (a shared x with different y has denominator 0)
SlopeDenominator ==
    IF pt_call.op = "double" \/ pt_call.P = pt_call.Q
    THEN (2 * pt_call.P.y) % ec_params.p
    ELSE (pt_call.Q.x - pt_call.P.x) % ec_params.p

\* C22: _point_add and _point_double return a point for all input points, on
\* the curve or not; when the slope denominator is 0 or has no inverse
\* modulo p the result is the point at infinity.
AddDoubleTotal ==
    (pt_call.op \in {"add", "double"})
        => /\ pt_call.result.infinity \in BOOLEAN
           /\ pt_call.result.x \in Int
           /\ pt_call.result.y \in Int
           /\ (/\ ~pt_call.P.infinity
               /\ ~pt_call.Q.infinity
               /\ \/ SlopeDenominator = 0
                  \/ Gcd(SlopeDenominator, ec_params.p) # 1)
                  => pt_call.result.infinity

AddWithoutInverseWitness ==
    /\ pt_call.op = "add"
    /\ ~pt_call.P.infinity
    /\ ~pt_call.Q.infinity
    /\ pt_call.P.x # pt_call.Q.x
    /\ SlopeDenominator # 0
    /\ Gcd(SlopeDenominator, ec_params.p) # 1
    /\ pt_call.result.infinity

\* C23: once an engine's parameters exist (FiniteFieldDSS: after
\* construction; EllipticCurveDSS: after the first key_generation) no call of
\* key_generation, sign or verify changes their values.
ParametersImmutable ==
    [][/\ (ctor_pc = "constructed") => params' = params
       /\ (ec_key # NoEcKey) => ec_params' = ec_params]_vars

\* key_generation has run twice on the instance (each run multiplies twice)
RekeyedWitness ==
    /\ ec_pc = "keyed"
    /\ ec_params = generate_curve_params(ec_bit_length)
    /\ ec_metrics.point_multiplications = MaxPointMultiplications

\* P added to the identity k times with _point_add
RECURSIVE RepeatedAdd(_, _, _)
RepeatedAdd(k, P, cp) ==
    IF k = 0 THEN PointAtInfinity
    ELSE point_add(RepeatedAdd(k - 1, P, cp), P, cp)

\* C24: for every curve point P whose order divides n and every k in [0, n),
\* _scalar_multiply(k, P) is the point obtained by adding P to the identity
\* k times with _point_add.
DoubleAndAddCorrect ==
    (/\ pt_call.op = "multiply"
     /\ IdentityOrOnCurve(pt_call.P, ec_params)
     /\ RepeatedAdd(ec_params.n, pt_call.P, ec_params).infinity
     /\ pt_call.k \in 0..(ec_params.n - 1))
        => pt_call.result = RepeatedAdd(pt_call.k, pt_call.P, ec_params)

\* a multiplication that both doubles and adds: k = 7 on a point of order 10
DoubleAndAddWitness ==
    /\ pt_call.op = "multiply"
    /\ ~pt_call.P.infinity
    /\ OnCurve(pt_call.P, ec_params)
    /\ RepeatedAdd(ec_params.n, pt_call.P, ec_params).infinity
    /\ ~RepeatedAdd(ec_params.n \div 2, pt_call.P, ec_params).infinity
    /\ pt_call.k \in 0..(ec_params.n - 1)
    /\ BitCount(pt_call.k) > 2
    /\ ~pt_call.result.infinity
    /\ pt_call.result = RepeatedAdd(pt_call.k, pt_call.P, ec_params)

\* C25: every signature (R, s, Z) sign_message returns has R and Z different
\* from the point at infinity, 1 <= s <= n - 1, and was computed with
\* k * (e + x_R) mod n # 0.
ReturnedSignatureValid ==
    (ec_pc = "signed")
        => /\ ~ec_sig.R.infinity
           /\ ~ec_sig.Z.infinity
           /\ ec_sig.s \in 1..(ec_params.n - 1)
           /\ (ec_values.sign_k * (ec_values.sign_e + ec_values.sign_x_R))
                 % ec_params.n # 0

\* a signature returned by a pass that followed a discarded attempt
SignedAfterRetryWitness ==
    /\ ec_pc = "signed"
    /\ ec_depth > 0
    /\ ~ec_sig.R.infinity
    /\ ~ec_sig.Z.infinity
    /\ ec_sig.s \in 1..(ec_params.n - 1)

\* C26: the private key x key_generation returns generates the subgroup of
\* order q: x # 1 and x^q = 1 (mod p), whatever the draws of a, the fallback
\* after the last resampling included.
PrivateKeyGeneratesSubgroup ==
    (ff_pc = "key_generation returned")
        => /\ ff_key.x # 1
           /\ ModExp(ff_key.x, params.q, params.p) = 1

IsolatedResult(th) ==
    IF th.call = "sign"
    THEN LET sv == SignValues(th.message, ff_key.x, th.k, th.u, th.v, params)
         IN  <<sv.sign_r, sv.s, sv.z_final>>
    ELSE IF th.call = "verify"
    THEN VerifyValues(th.message, th.r, th.s, th.z, th.y, params).is_valid
    ELSE IF th.call = "sign_message"
    THEN LET sa == SignAttempt(th.message, ec_key.G, th.values.sign_k,
                               th.values.sign_u, ec_params)
         IN  <<sa.R, sa.s, sa.Z>>
    ELSE VerifySignatureValues(th.message, th.R, th.s, th.Z,
                               ec_params).verification_result

\* C28: when the calls of two threads on one instance interleave, each call
\* returns the signature or verdict it returns in isolation for the same
\* parameters, inputs and draws.
InterleavedResultsIsolated ==
    \A t \in Threads :
        (threads[t].pc = "returned")
            => threads[t].result = IsolatedResult(threads[t])

\* both threads have returned from sign calls, with different draws, that
\* overlapped: an increment of the exp_ops counter was lost
OverlappedSignsWitness ==
    /\ \A t \in Threads : threads[t].pc = "returned" /\ threads[t].call = "sign"
    /\ threads["A"].result # threads["B"].result
    /\ ff_metrics.exp_ops < 2 * SignOps.exp_ops
    /\ \A t \in Threads : threads[t].result = IsolatedResult(threads[t])

\* C29 (SpecApi): every response of the key-generation, sign and verify
\* endpoints to a request whose scheme_type is neither "elliptic_curve" nor
\* "finite_field" has HTTP status 400.
UnknownSchemeIsBadRequest ==
    \A i \in 1..Len(api.responses) :
        api.responses[i].request.scheme_type \notin {"elliptic_curve", "finite_field"}
            => api.responses[i].status_code = HTTP_BAD_REQUEST

=============================================================================
